---------------------------- MODULE Spec2Model ----------------------------
(***************************************************************************)
(* GenSight-Issue-Insight-Automator: the keyword classifier                *)
(* (src/aggregator.py), the aggregator (generate_monthly_summary) and the  *)
(* two narrators (src/genai_insights.py, src/genai_summary_hf.py).         *)
(*                                                                         *)
(* Python strings are sequences of one-character strings, so that          *)
(* lower(), strip(), title(), the substring test `k in t`, the regular     *)
(* expression of _label_to_year_month and string comparison are computed   *)
(* character by character.  A dict is the sequence of its items in         *)
(* insertion order.  A float that is the quotient of two integers is kept  *)
(* as the pair [num, den].                                                 *)
(***************************************************************************)
EXTENDS Integers, Sequences, FiniteSets, TLC

VARIABLES
    text,         \* classify_issue: the argument
    label,        \* classify_issue: the returned label ("" before the call)
    all_labels,   \* genai_insights._prev_month_label: the list argument
    current,      \* genai_insights._prev_month_label: the label argument
    prev,         \* genai_insights._prev_month_label: the return value
    df,           \* the ticket table handed to generate_monthly_summary
    summary,      \* the dict returned by generate_monthly_summary
    month_label,  \* the month of the latest narrator call
    insight,      \* what generate_summary_text computed for month_label
    genai,        \* what _deterministic_insight_lines computed for month_label
    narrated      \* the months of the narrator calls so far, in call order

vars == <<text, label, all_labels, current, prev, df, summary, month_label,
          insight, genai, narrated>>

classifyVars == <<text, label>>
prevVars == <<all_labels, current, prev>>
pipeVars == <<df, summary, month_label, insight, genai, narrated>>

-----------------------------------------------------------------------------
(* Bounds of the model.                                                    *)

MaxWords == 2          \* words per description drawn for classify_issue
MaxLabels == 3         \* length of the label list drawn for _prev_month_label
MaxTickets == 3        \* rows of a ticket table spread over several months
MaxMonthTickets == 6   \* rows of a single-month table with three kinds of ticket
MaxVariedTickets == 4  \* rows of a single-month table with four kinds of ticket
MaxMonthCount == 2     \* issue_count of a row of a by_month table
MaxDatedTickets == 2   \* rows of a table with timestamps and missing columns
MaxOrderTickets == 2   \* rows of a table whose months are narrated in turn
MaxNarrations == 2     \* narrator calls on one summary
MaxDayTickets == 3     \* rows of a single-month table of tickets with timestamps
MaxAdviceTickets == 2  \* rows of a single-month table with a ticket kind per label
MaxIssueCount == 2     \* count of an issue in a per-month dict of issue counts

-----------------------------------------------------------------------------
(* Characters and Python's str methods.                                    *)

UpperCase == <<"A","B","C","D","E","F","G","H","I","J","K","L","M",
               "N","O","P","Q","R","S","T","U","V","W","X","Y","Z">>
LowerCase == <<"a","b","c","d","e","f","g","h","i","j","k","l","m",
               "n","o","p","q","r","s","t","u","v","w","x","y","z">>
Digits == <<"0","1","2","3","4","5","6","7","8","9">>

\* The characters the model uses, in code-point order (str comparison).
CodePoints == <<" ", "/">> \o Digits \o <<"<", ">">> \o UpperCase \o LowerCase

\* A sequence given as a function, as the tuple of its elements.
AsTuple(f) == f \o <<>>

IndexOf(seq, x) == CHOOSE i \in 1..Len(seq) : seq[i] = x
Occurs(seq, x) == \E i \in 1..Len(seq) : seq[i] = x

Chars == {CodePoints[i] : i \in 1..Len(CodePoints)}

\* The tables of the character functions.
OrdOf == [c \in Chars |-> IndexOf(CodePoints, c)]
LowerOf ==
    [c \in Chars |-> IF Occurs(UpperCase, c) THEN LowerCase[IndexOf(UpperCase, c)] ELSE c]
UpperOf ==
    [c \in Chars |-> IF Occurs(LowerCase, c) THEN UpperCase[IndexOf(LowerCase, c)] ELSE c]
UpperSet == {UpperCase[i] : i \in 1..Len(UpperCase)}
LowerSet == {LowerCase[i] : i \in 1..Len(LowerCase)}
DigitSet == {Digits[i] : i \in 1..Len(Digits)}

Ord(c) == OrdOf[c]
IsUpper(c) == c \in UpperSet
IsLower(c) == c \in LowerSet
IsAlpha(c) == IsUpper(c) \/ IsLower(c)
IsDigit(c) == c \in DigitSet
IsSpace(c) == c = " "

LowerChar(c) == LowerOf[c]
UpperChar(c) == UpperOf[c]

\* str.lower(), str.upper()
Lower(s) == AsTuple([i \in 1..Len(s) |-> LowerChar(s[i])])
Upper(s) == AsTuple([i \in 1..Len(s) |-> UpperChar(s[i])])

\* str.title(): a letter that follows a non-letter is upper-cased, the
\* other letters are lower-cased.
Title(s) ==
    AsTuple([i \in 1..Len(s) |->
        IF i = 1 \/ ~IsAlpha(s[i - 1]) THEN UpperChar(s[i]) ELSE LowerChar(s[i])])

\* str.strip()
Strip(s) ==
    IF \A i \in 1..Len(s) : IsSpace(s[i]) THEN <<>>
    ELSE LET lo == CHOOSE i \in 1..Len(s) :
                        ~IsSpace(s[i]) /\ \A j \in 1..(i - 1) : IsSpace(s[j])
             hi == CHOOSE i \in 1..Len(s) :
                        ~IsSpace(s[i]) /\ \A j \in (i + 1)..Len(s) : IsSpace(s[j])
         IN  SubSeq(s, lo, hi)

\* re.sub(r"\s+", " ", s): every run of whitespace becomes one space.
RECURSIVE CollapseSpaces(_)
CollapseSpaces(s) ==
    IF s = <<>> THEN <<>>
    ELSE LET front == CollapseSpaces(SubSeq(s, 1, Len(s) - 1))
         IN  IF IsSpace(s[Len(s)]) /\ Len(s) > 1 /\ IsSpace(s[Len(s) - 1])
             THEN front
             ELSE Append(front, s[Len(s)])

\* Python's `k in t` for strings.
IsSubstring(k, t) ==
    \E i \in 0..(Len(t) - Len(k)) : SubSeq(t, i + 1, i + Len(k)) = k

\* Python's `a < b` for strings: code-point lexicographic order.
RECURSIVE StrLess(_, _)
StrLess(a, b) ==
    IF b = <<>> THEN FALSE
    ELSE IF a = <<>> THEN TRUE
    ELSE IF a[1] # b[1] THEN Ord(a[1]) < Ord(b[1])
    ELSE StrLess(Tail(a), Tail(b))

-----------------------------------------------------------------------------
(* src/aggregator.py: the classifier.                                      *)

\* The category table, in its declared (dict insertion) order.
CATEGORIES == <<
    [cat |-> "Citrix", keys |-> <<
        <<"c","i","t","r","i","x">>,
        <<"v","d","i">>
    >>],
    [cat |-> "MFA", keys |-> <<
        <<"m","f","a">>,
        <<"o","t","p">>,
        <<"a","u","t","h","e","n","t","i","c","a","t","o","r">>,
        <<"n","o","t","i","f","i","c","a","t","i","o","n">>
    >>],
    [cat |-> "Endpoint Compliance", keys |-> <<
        <<"e","n","d","p","o","i","n","t">>,
        <<"c","o","m","p","l","i","a","n","c","e">>,
        <<"d","l","p">>,
        <<"e","d","r">>,
        <<"t","a","n","i","u","m">>,
        <<"p","m","c">>,
        <<"e","n","c","r","y","p","t","i","o","n">>,
        <<"b","i","t","l","o","c","k","e","r">>,
        <<"h","o","s","t","n","a","m","e">>,
        <<"s","e","n","s","o","r">>,
        <<"s","e","n","s","e">>
    >>],
    [cat |-> "Access/Password", keys |-> <<
        <<"p","a","s","s","w","o","r","d">>,
        <<"a","c","c","e","s","s">>,
        <<"u","n","l","o","c","k">>,
        <<"r","e","s","e","t">>,
        <<"s","s","p","r">>,
        <<"c","r","e","d","e","n","t","i","a","l">>
    >>],
    [cat |-> "Network/VPN", keys |-> <<
        <<"v","p","n">>,
        <<"z","s","c","a","l","e","r">>,
        <<"n","e","t","w","o","r","k">>,
        <<"a","n","y","c","o","n","n","e","c","t">>,
        <<"p","r","o","x","y">>,
        <<"i","s","p">>
    >>]
>>

\* The labels classify_issue returns, with the characters of each.
LabelSpellings ==
    {<<"Citrix", <<"C","i","t","r","i","x">>>>,
     <<"MFA", <<"M","F","A">>>>,
     <<"Endpoint Compliance",
       <<"E","n","d","p","o","i","n","t"," ","C","o","m","p","l","i","a","n","c","e">>>>,
     <<"Access/Password",
       <<"A","c","c","e","s","s","/","P","a","s","s","w","o","r","d">>>>,
     <<"Network/VPN", <<"N","e","t","w","o","r","k","/","V","P","N">>>>,
     <<"Other", <<"O","t","h","e","r">>>>}

\* The characters of label c.
LabelText(c) == (CHOOSE p \in LabelSpellings : p[1] = c)[2]

\* A Python value handed to classify_issue: a str, or a value of another type
\* (None, a float NaN of an empty spreadsheet cell, an int).
StrVal(s) == [kind |-> "str", val |-> s]
NonStr(k) == [kind |-> k, val |-> <<>>]

\* any(k in t for k in keys)
AnyKeyIn(keys, t) == \E j \in 1..Len(keys) : IsSubstring(keys[j], t)

\* for cat, keys in CATEGORIES.items(): if any(...): return cat
RECURSIVE FirstCategory(_, _)
FirstCategory(t, i) ==
    IF i > Len(CATEGORIES) THEN "Other"
    ELSE IF AnyKeyIn(CATEGORIES[i].keys, t) THEN CATEGORIES[i].cat
    ELSE FirstCategory(t, i + 1)

\* Mutant: the loop keeps going and the last matching category wins.
RECURSIVE LastCategory(_, _)
LastCategory(t, i) ==
    IF i < 1 THEN "Other"
    ELSE IF AnyKeyIn(CATEGORIES[i].keys, t) THEN CATEGORIES[i].cat
    ELSE LastCategory(t, i - 1)

classify_issue_last_wins(v) ==
    IF v.kind # "str" THEN "Other" ELSE LastCategory(Lower(v.val), Len(CATEGORIES))

\* Mutant: the keywords are looked up in the text as written (no lower()).
classify_issue_no_lower(v) ==
    IF v.kind # "str" THEN "Other" ELSE FirstCategory(v.val, 1)

\* Mutant: no isinstance guard; .lower() of a non-string raises.
classify_issue_no_guard(v) ==
    IF v.kind # "str" THEN "AttributeError" ELSE FirstCategory(Lower(v.val), 1)

classify_issue(v) ==
    IF v.kind # "str" THEN "Other" ELSE FirstCategory(Lower(v.val), 1)

-----------------------------------------------------------------------------
(* Inputs of the classifier.                                               *)

Words == {
    <<"V","P","N">>,
    <<"a","c","c","e","s","s">>,
    <<"C","i","t","r","i","x">>,
    <<"O","T","P">>,
    <<"D","L","P">>,
    <<"c","r","i","s","p">>,
    <<"p","r","i","n","t","e","r">>,
    <<"R","e","s","e","t">>
}

\* " ".join(ws)
RECURSIVE Join(_)
Join(ws) ==
    IF ws = <<>> THEN <<>>
    ELSE IF Len(ws) = 1 THEN ws[1]
    ELSE ws[1] \o <<" ">> \o Join(Tail(ws))

Descriptions ==
    {Join(ws) : ws \in UNION {[1..n -> Words] : n \in 0..MaxWords}}

VpnAccessResetViaSspr ==
    <<"V","P","N"," ","a","c","c","e","s","s"," ",
      "r","e","s","e","t"," ","v","i","a"," ","S","S","P","R">>

TextInputs ==
    {StrVal(d) : d \in Descriptions \cup {VpnAccessResetViaSspr}}
        \cup {NonStr("NoneType"), NonStr("float"), NonStr("int")}


-----------------------------------------------------------------------------
(* Optional values (None or a value) and stable sorting.                   *)

None == <<>>
Some(x) == <<x>>

\* list.sort() / sorted(): a stable sort.  The element at i goes after the
\* elements that are less than it and after the equal ones that precede it.
SortStable(s, Less(_, _)) ==
    LET before(i) ==
            {j \in 1..Len(s) : Less(s[j], s[i]) \/ (~Less(s[i], s[j]) /\ j < i)}
        at(n) == CHOOSE i \in 1..Len(s) : Cardinality(before(i)) = n - 1
    IN  AsTuple([n \in 1..Len(s) |-> s[at(n)]])

\* The distinct elements of a sequence in order of first appearance
\* (list(dict.fromkeys(xs)), Series.unique()).
RECURSIVE Dedupe(_)
Dedupe(s) ==
    IF s = <<>> THEN <<>>
    ELSE LET front == Dedupe(SubSeq(s, 1, Len(s) - 1))
         IN  IF Occurs(front, s[Len(s)]) THEN front ELSE Append(front, s[Len(s)])

-----------------------------------------------------------------------------
(* src/genai_insights.py: month labels.                                    *)

\* mon_map: the month number is the position of the abbreviation.
mon_map == <<
    <<"J","A","N">>, <<"F","E","B">>, <<"M","A","R">>, <<"A","P","R">>,
    <<"M","A","Y">>, <<"J","U","N">>, <<"J","U","L">>, <<"A","U","G">>,
    <<"S","E","P">>, <<"O","C","T">>, <<"N","O","V">>, <<"D","E","C">>
>>

\* int() of a string of decimal digits.
RECURSIVE ParseInt(_)
ParseInt(ds) ==
    IF ds = <<>> THEN 0
    ELSE 10 * ParseInt(SubSeq(ds, 1, Len(ds) - 1)) + (IndexOf(Digits, ds[Len(ds)]) - 1)

\* re.match(r"^([A-Z]{3})(\d{4})$", s)
MatchesMonYear(s) ==
    /\ Len(s) = 7
    /\ \A i \in 1..3 : IsUpper(s[i])
    /\ \A i \in 4..7 : IsDigit(s[i])

\* 'DEC2025' -> (2025, 12); None when the label is no month label.
label_to_year_month(lab) ==
    LET s == Strip(Upper(lab))
    IN  IF ~MatchesMonYear(s) THEN None
        ELSE IF ~Occurs(mon_map, SubSeq(s, 1, 3)) THEN None
        ELSE Some(<<ParseInt(SubSeq(s, 4, 7)), IndexOf(mon_map, SubSeq(s, 1, 3))>>)

\* Python's order of the tuples (year, month, label).
ParsedLess(a, b) ==
    \/ a[1] < b[1]
    \/ a[1] = b[1] /\ a[2] < b[2]
    \/ a[1] = b[1] /\ a[2] = b[2] /\ StrLess(a[3], b[3])

\* Mutant: the tuples are ordered by the label string alone.
ParsedLessByLabel(a, b) == StrLess(a[3], b[3])

\* parsed: (year, month, label) of every label that parses, in list order.
RECURSIVE ParsedLabels(_)
ParsedLabels(labels) ==
    IF labels = <<>> THEN <<>>
    ELSE LET ym == label_to_year_month(labels[1])
         IN  IF ym = None THEN ParsedLabels(Tail(labels))
             ELSE <<<<ym[1][1], ym[1][2], labels[1]>>>> \o ParsedLabels(Tail(labels))

\* labels_sorted of genai_insights._prev_month_label
ThirdOf(parsed) == AsTuple([i \in 1..Len(parsed) |-> parsed[i][3]])

\* Mutant of LabelsSorted: sorted by label string.
LabelsSortedByString(labels) ==
    ThirdOf(SortStable(ParsedLabels(labels), ParsedLessByLabel))

LabelsSorted(labels) == ThirdOf(SortStable(ParsedLabels(labels), ParsedLess))

\* genai_insights._prev_month_label(all_labels, current)
\* The tail of _prev_month_label, from `if not parsed` on.
PrevInSorted(labels_sorted, cur) ==
    IF labels_sorted = <<>> THEN None
    ELSE IF ~Occurs(labels_sorted, cur) THEN None
    ELSE LET idx == IndexOf(labels_sorted, cur)
         IN  IF idx - 1 >= 1 THEN Some(labels_sorted[idx - 1]) ELSE None

gi_prev_month_label(labels, cur) == PrevInSorted(LabelsSorted(labels), cur)

NOV2025 == <<"N","O","V","2","0","2","5">>
DEC2025 == <<"D","E","C","2","0","2","5">>
JAN2026 == <<"J","A","N","2","0","2","6">>
FEB2026 == <<"F","E","B","2","0","2","6">>
\* Matches the pattern and names no month: filtered out of `parsed`.
SUM2025 == <<"S","U","M","2","0","2","5">>

LabelPool == {NOV2025, DEC2025, JAN2026, FEB2026, SUM2025}

LabelLists == UNION {[1..n -> LabelPool] : n \in 0..MaxLabels}

-----------------------------------------------------------------------------
(* Values of the variables before the call that sets them.                 *)

NotCalled == [called |-> FALSE]
NoText == NonStr("NoneType")
IdleClassify == text = NoText /\ label = ""
IdlePrev == all_labels = <<>> /\ current = <<>> /\ prev = NotCalled
IdlePipe ==
    /\ df = <<>>
    /\ summary = NotCalled
    /\ month_label = <<>>
    /\ insight = NotCalled
    /\ genai = NotCalled
    /\ narrated = <<>>

-----------------------------------------------------------------------------
(* The classifier applied to one value.                                    *)

InitClassify ==
    /\ text \in TextInputs
    /\ label = ""
    /\ IdlePrev
    /\ IdlePipe

Classify ==
    /\ label = ""
    /\ label' = classify_issue(text)
    /\ UNCHANGED <<text, prevVars, pipeVars>>

SpecClassify == InitClassify /\ [][Classify]_vars

-----------------------------------------------------------------------------
(* genai_insights._prev_month_label applied to one list and one label.     *)

InitPrev ==
    /\ all_labels \in LabelLists
    /\ current \in LabelPool
    /\ prev = NotCalled
    /\ IdleClassify
    /\ IdlePipe

PrevMonth ==
    /\ ~prev.called
    /\ prev' = [called |-> TRUE, ret |-> gi_prev_month_label(all_labels, current)]
    /\ UNCHANGED <<all_labels, current, classifyVars, pipeVars>>

SpecPrev == InitPrev /\ [][PrevMonth]_vars

-----------------------------------------------------------------------------
(* Series and dicts of counts.                                             *)

\* The rows of a table (a sequence) that satisfy Test, in table order.
SelectRows(rows, Test(_)) ==
    LET keep == {i \in 1..Len(rows) : Test(rows[i])}
        nth(n) == CHOOSE i \in keep : Cardinality({j \in keep : j <= i}) = n
    IN  AsTuple([n \in 1..Cardinality(keep) |-> rows[nth(n)]])

Count(xs, x) == Cardinality({i \in 1..Len(xs) : xs[i] = x})

CountGreater(a, b) == a.v > b.v
CountLess(a, b) == a.v < b.v

\* Series.value_counts().to_dict(): the items [k, v] by descending count;
\* values with equal counts stay in order of first appearance.
CountItems(xs, keys) ==
    AsTuple([i \in 1..Len(keys) |-> [k |-> keys[i], v |-> Count(xs, keys[i])]])

value_counts(xs) == SortStable(CountItems(xs, Dedupe(xs)), CountGreater)

\* dict.get(key, 0)
DictGet(d, key) ==
    IF \E i \in 1..Len(d) : d[i].k = key
    THEN d[CHOOSE i \in 1..Len(d) : d[i].k = key].v
    ELSE 0

HasKey(d, key) == \E i \in 1..Len(d) : d[i].k = key

\* sum(d.values())
RECURSIVE SumValues(_)
SumValues(d) == IF d = <<>> THEN 0 ELSE d[1].v + SumValues(Tail(d))

\* items[:n]
Take(s, n) == SubSeq(s, 1, IF Len(s) < n THEN Len(s) ELSE n)

\* round(num / den) and f"{num / den:.0f}" for num >= 0, den > 0: to the
\* nearest integer, a tie to the even one.
RoundHalfEven(num, den) ==
    LET q == num \div den
        r == num % den
    IN  IF 2 * r < den THEN q
        ELSE IF 2 * r > den THEN q + 1
        ELSE IF q % 2 = 0 THEN q ELSE q + 1

-----------------------------------------------------------------------------
(* src/aggregator.py: generate_monthly_summary.                            *)

Column(rows, Field(_)) == AsTuple([i \in 1..Len(rows) |-> Field(rows[i])])

MonthOf(r) == r.month_label
IssueOf(r) == r.issue
IssueTypeOf(r) == r.issue_type
\* Mutant: the status is trimmed but keeps its case.
StatusStripped(r) == Strip(r.status)
\* .astype(str).str.strip().str.title()
StatusTitle(r) == Title(Strip(r.status))
\* .astype(str).str.strip().str.lower()
StatusLower(r) == Lower(Strip(r.status))
\* .astype(str).str.strip()
EngineerStripped(r) == Strip(r.engineer)
IssueStripped(r) == Strip(r.issue)

\* `"c" in df.columns`: the columns of a table are the fields of its rows.
\* An empty table has no row to show its columns; every Series taken from it
\* is empty whichever columns it has.
HasColumn(rows, c) == rows # <<>> /\ c \in DOMAIN rows[1]

\* A missing timestamp (NaT); a date is <<year, month, day>>.
NaT == <<>>
Date(y, m, d) == <<y, m, d>>
DateLess(a, b) ==
    \/ a[1] < b[1]
    \/ a[1] = b[1] /\ a[2] < b[2]
    \/ a[1] = b[1] /\ a[2] = b[2] /\ a[3] < b[3]

\* Mutant: every row is tagged "Other".
AnnotateAsOther(r) ==
    [c \in DOMAIN r \cup {"issue_type"} |-> IF c = "issue_type" THEN "Other" ELSE r[c]]

\* local["issue_type"] = local["issue"].apply(classify_issue): the row with
\* all its columns and the issue_type column set.
Annotate(r) ==
    [c \in DOMAIN r \cup {"issue_type"} |->
        IF c = "issue_type" THEN classify_issue(StrVal(r.issue)) ELSE r[c]]

\* local.groupby("month_label").size().reset_index(name="issue_count"):
\* one row per label, the labels in sorted (string) order.
GroupSizes(labels, keys) ==
    AsTuple([i \in 1..Len(keys) |->
        [month_label |-> keys[i], issue_count |-> Count(labels, keys[i])]])

\* Mutant: one row for each of the two months narrated, as groupby on a
\* categorical column gives, whether or not the table has rows of it.
GroupByMonthAllMonths(rows) ==
    GroupSizes(Column(rows, MonthOf), <<DEC2025, JAN2026>>)

GroupByMonth(rows) ==
    GroupSizes(Column(rows, MonthOf), SortStable(Dedupe(Column(rows, MonthOf)), StrLess))

\* local.groupby(["month_label", "date"]).size().reset_index(name="count"):
\* one row per (label, date) of the rows that have a date, in sorted order.
MonthDateOf(r) == <<r.month_label, r.date>>
MonthDateLess(a, b) ==
    StrLess(a[1], b[1]) \/ (a[1] = b[1] /\ DateLess(a[2], b[2]))

DailySizes(pairs, keys) ==
    AsTuple([i \in 1..Len(keys) |->
        [month_label |-> keys[i][1], date |-> keys[i][2],
         count |-> Count(pairs, keys[i])]])

HasDate(p) == p[2] # NaT

GroupByMonthDate(rows) ==
    DailySizes(Column(rows, MonthDateOf),
               SortStable(Dedupe(SelectRows(Column(rows, MonthDateOf), HasDate)),
                          MonthDateLess))

\* generate_monthly_summary from `# By month` on, local being the copy of
\* the table with its issue_type column.
SummaryOf(table, local) ==
    [called |-> TRUE,
     by_status |-> IF HasColumn(table, "status")
                   THEN value_counts(Column(table, StatusTitle)) ELSE <<>>,
     by_engineer |-> IF HasColumn(table, "engineer")
                     THEN value_counts(Column(table, EngineerStripped)) ELSE <<>>,
     by_issue_type |-> value_counts(Column(local, IssueTypeOf)),
     by_month |-> GroupByMonth(local),
     daily |-> IF HasColumn(local, "date") THEN GroupByMonthDate(local) ELSE <<>>,
     raw |-> local]

\* Mutant: an empty table is refused.
generate_monthly_summary_refusing_empty(table) ==
    IF table = <<>> THEN [called |-> TRUE, error |-> "ValueError"]
    ELSE SummaryOf(table, AsTuple([i \in 1..Len(table) |-> Annotate(table[i])]))

generate_monthly_summary(table) ==
    SummaryOf(table, AsTuple([i \in 1..Len(table) |-> Annotate(table[i])]))

\* raw[raw["month_label"] == month_label]
MonthRows(raw, m) == SelectRows(raw, LAMBDA r : r.month_label = m)

-----------------------------------------------------------------------------
(* src/genai_insights.py: generate_summary_text.                           *)

Closed == <<"C","l","o","s","e","d">>
Open == <<"O","p","e","n">>

\* _safe_counts(series)
safe_counts(xs) == IF xs = <<>> THEN <<>> ELSE value_counts(xs)

\* A float num / den; Python's int 0 is Ratio(0, 1).
Ratio(n, d) == [num |-> n, den |-> d]

\* _top_n_with_pct(counts, n): the items [k, v, pct] of the rendered list,
\* pct being f"{v * 100 / total:.0f}"; the empty list stands for "N/A".
PctItems(items, total) ==
    AsTuple([i \in 1..Len(items) |->
        [k |-> items[i].k, v |-> items[i].v,
         pct |-> RoundHalfEven(items[i].v * 100, total)]])

\* Mutant: sorted without reverse=True, the smallest counts come first.
top_n_with_pct_ascending(counts, n) ==
    IF counts = <<>> THEN <<>>
    ELSE PctItems(Take(SortStable(counts, CountLess), n), SumValues(counts))

top_n_with_pct(counts, n) ==
    IF counts = <<>> THEN <<>>
    ELSE PctItems(Take(SortStable(counts, CountGreater), n), SumValues(counts))

\* by_month_df.set_index("month_label").loc[lab, "issue_count"]
ByMonthCount(by_month, lab) ==
    by_month[CHOOSE i \in 1..Len(by_month) : by_month[i].month_label = lab].issue_count

InByMonth(by_month, lab) == \E i \in 1..Len(by_month) : by_month[i].month_label = lab

\* Mutant: without a previous month the field reads as a change of 0%.
MomChangeFromZeroDelta(by_month, m, prev_lab) ==
    LET has_cur == InByMonth(by_month, m)
        has_prev == prev_lab # None /\ InByMonth(by_month, prev_lab[1])
        cur_count == ByMonthCount(by_month, m)
        prev_count == ByMonthCount(by_month, prev_lab[1])
    IN  IF has_cur /\ has_prev /\ prev_count > 0
        THEN [kind |-> "percent",
              delta |-> Ratio((cur_count - prev_count) * 100, prev_count),
              sign |-> IF cur_count > prev_count THEN "increase"
                       ELSE IF cur_count < prev_count THEN "decrease"
                       ELSE "no change",
              prev_lab |-> prev_lab[1]]
        ELSE IF has_cur /\ has_prev /\ prev_count = 0
        THEN [kind |-> "infinite increase"]
        ELSE IF has_cur /\ ~has_prev
        THEN [kind |-> "percent", delta |-> Ratio(0, 1), sign |-> "no change",
              prev_lab |-> m]
        ELSE [kind |-> "N/A"]

\* The month-over-month field (mom_change_str) for the previous label found.
MomChangeFrom(by_month, m, prev_lab) ==
    LET has_cur == InByMonth(by_month, m)
        has_prev == prev_lab # None /\ InByMonth(by_month, prev_lab[1])
        cur_count == ByMonthCount(by_month, m)
        prev_count == ByMonthCount(by_month, prev_lab[1])
    IN  IF has_cur /\ has_prev /\ prev_count > 0
        THEN [kind |-> "percent",
              delta |-> Ratio((cur_count - prev_count) * 100, prev_count),
              sign |-> IF cur_count > prev_count THEN "increase"
                       ELSE IF cur_count < prev_count THEN "decrease"
                       ELSE "no change",
              prev_lab |-> prev_lab[1]]
        ELSE IF has_cur /\ has_prev /\ prev_count = 0
        THEN [kind |-> "infinite increase"]
        ELSE IF has_cur /\ ~has_prev
        THEN [kind |-> "No previous month available for comparison"]
        ELSE [kind |-> "N/A"]

\* The `# MoM change` block of generate_summary_text.
MomChange(by_month, m) ==
    IF by_month = <<>> THEN [kind |-> "N/A"]
    ELSE MomChangeFrom(by_month, m, gi_prev_month_label(Column(by_month, MonthOf), m))

\* f"No data available for {month_label}."
NoData(m) == [called |-> TRUE, nodata |-> TRUE, month_label |-> m]

\* The marker "N/A" of the peak, quiet and weekday fields.
NA == <<>>

\* _pick_date_for_month(row, y, m); row.get gives None for a missing column.
\* Timestamps are modelled by their date.
InMonth(d, y, m) == d # NaT /\ d[1] = y /\ d[2] = m

\* Mutant: a ticket whose end lies outside the month has no date.
PickDateEndOnly(start, end, y, m) ==
    IF InMonth(end, y, m) THEN end ELSE NaT

PickDate(start, end, y, m) ==
    IF InMonth(end, y, m) THEN end
    ELSE IF InMonth(start, y, m) THEN start
    ELSE NaT

pick_date_for_month(row, y, m) ==
    PickDate(IF "start" \in DOMAIN row THEN row.start ELSE NaT,
             IF "end" \in DOMAIN row THEN row.end ELSE NaT,
             y, m)

\* Timestamp.day_name()
DayNames == <<"Sunday", "Monday", "Tuesday", "Wednesday", "Thursday", "Friday",
              "Saturday">>
MonthOffsets == <<0, 3, 2, 5, 0, 3, 5, 1, 4, 6, 2, 4>>

DayNameOf(y, m, d) ==
    DayNames[((y + (y \div 4) - (y \div 100) + (y \div 400) + MonthOffsets[m] + d) % 7) + 1]

day_name(date) ==
    DayNameOf(IF date[2] < 3 THEN date[1] - 1 ELSE date[1], date[2], date[3])

IsDated(d) == d # NaT
DateKeyLess(a, b) == DateLess(a.k, b.k)
IsPositive(c) == c.v > 0

\* month_dates.dropna() for the month (yy, mm)
MonthDates(sub, ym) ==
    SelectRows(AsTuple([i \in 1..Len(sub) |-> pick_date_for_month(sub[i], ym[1], ym[2])]),
               IsDated)

\* daily = md.value_counts().sort_index()
DailyOf(md) == SortStable(CountItems(md, Dedupe(md)), DateKeyLess)

\* peak_str, quiet_str and busiest_weekday_str for the dates md of the month
\* and their counts per day (daily, empty when not computed); sort_values keeps days of equal count in
\* ascending order of date.
\* Mutant: the quiet day is the first day of the month that has a ticket.
PeakQuietOfFirstDayQuiet(md, daily) ==
    IF md = <<>> THEN [peak |-> NA, quiet |-> NA, busiest_weekday |-> NA, daily |-> <<>>]
    ELSE [daily |-> daily,
          peak |-> <<SortStable(daily, CountGreater)[1]>>,
          quiet |-> <<daily[1]>>,
          busiest_weekday |-> <<value_counts(AsTuple([i \in 1..Len(md) |-> day_name(md[i])]))[1]>>]

PeakQuietOf(md, daily) ==
    IF md = <<>> THEN [peak |-> NA, quiet |-> NA, busiest_weekday |-> NA, daily |-> <<>>]
    ELSE [daily |-> daily,
          peak |-> <<SortStable(daily, CountGreater)[1]>>,
          quiet |-> IF SelectRows(daily, IsPositive) = <<>> THEN NA
                    ELSE <<SortStable(SelectRows(daily, IsPositive), CountLess)[1]>>,
          busiest_weekday |-> <<value_counts(AsTuple([i \in 1..Len(md) |-> day_name(md[i])]))[1]>>]

PeakQuietFrom(md) == PeakQuietOf(md, DailyOf(md))

\* The `# Peak/quiet day` block of generate_summary_text.
PeakQuiet(sub, ym) ==
    IF ym # <<>> /\ (HasColumn(sub, "start") \/ HasColumn(sub, "end"))
    THEN PeakQuietFrom(MonthDates(sub, ym[1]))
    ELSE [peak |-> NA, quiet |-> NA, busiest_weekday |-> NA, daily |-> <<>>]

\* Mutant: the closure rate is taken over the tickets that are not closed.
ClosureRatePerOpen(closed, total) ==
    IF total - closed # 0 THEN Ratio(closed * 100, total - closed) ELSE Ratio(0, 1)

\* closure_rate = (closed * 100 / total) if total else 0
ClosureRate(closed, total) ==
    IF total # 0 THEN Ratio(closed * 100, total) ELSE Ratio(0, 1)

\* dominant = max(by_issue_type.items(), key=lambda x: x[1])[0]: the first
\* item of the highest count.
Dominant(by_issue_type) ==
    by_issue_type[CHOOSE i \in 1..Len(by_issue_type) :
                    /\ \A j \in 1..Len(by_issue_type) : by_issue_type[j].v <= by_issue_type[i].v
                    /\ \A j \in 1..(i - 1) : by_issue_type[j].v < by_issue_type[i].v].k

\* The advice appended for dominant.lower().
DominantAdvice(dominant_lower) ==
    IF dominant_lower = <<"e","n","d","p","o","i","n","t"," ",
                          "c","o","m","p","l","i","a","n","c","e">>
    THEN "Validate agents (EDR/DLP/Tanium/PMC), fix hostnames, and automate remediation scripts."
    ELSE IF dominant_lower = <<"c","i","t","r","i","x">>
    THEN "Coordinate with Citrix/Network for URL reachability and client reliability checks."
    ELSE IF dominant_lower \in {<<"a","c","c","e","s","s","/","p","a","s","s","w","o","r","d">>,
                                <<"a","c","c","e","s","s">>,
                                <<"p","a","s","s","w","o","r","d">>}
    THEN "Promote SSPR and password hygiene; publish quick guides to reduce resets."
    ELSE IF dominant_lower = <<"m","f","a">>
    THEN "Push MFA enrollment/notification troubleshooting tips; preemptive user comms."
    ELSE "Review top categories and publish targeted how-to guides for recurring issues."

\* The `# Recommendations` block: recos.
Recos(by_issue_type, closure_rate, peak) ==
    (IF by_issue_type # <<>>
     THEN <<DominantAdvice(Lower(LabelText(Dominant(by_issue_type))))>> ELSE <<>>)
      \o (IF closure_rate.num < 95 * closure_rate.den
          THEN <<"Improve closure rate with SOPs and triage playbooks.">> ELSE <<>>)
      \o (IF peak # NA THEN <<"Staff peak days proactively to avoid backlog.">> ELSE <<>>)

\* generate_summary_text from `total = int(sub.shape[0])` on.
SummaryText(sm, m, total, by_status, by_issue_type, by_engineer, days) ==
    [called |-> TRUE,
     nodata |-> FALSE,
     month_label |-> m,
     peak |-> days.peak,
     quiet |-> days.quiet,
     busiest_weekday |-> days.busiest_weekday,
     daily |-> days.daily,
     by_status |-> by_status,
     by_issue_type |-> by_issue_type,
     by_engineer |-> by_engineer,
     total |-> total,
     closed |-> DictGet(by_status, Closed),
     open_ |-> DictGet(by_status, Open),
     closure_rate |-> ClosureRate(DictGet(by_status, Closed), total),
     top3_issue_types |-> top_n_with_pct(by_issue_type, 3),
     recos |-> Recos(by_issue_type, ClosureRate(DictGet(by_status, Closed), total),
                     days.peak),
     mom_change |-> IF "by_month" \in DOMAIN sm THEN MomChange(sm.by_month, m)
                    ELSE [kind |-> "N/A"]]

\* by_status, by_issue_type and by_engineer of the month's rows; a missing
\* status or engineer column gives an empty Series, a missing issue_type
\* column is filled with "Other".
\* Mutant: without a status column every ticket counts as closed.
StatusCountsOfDefaultClosed(sub) ==
    IF HasColumn(sub, "status") THEN safe_counts(Column(sub, StatusTitle))
    ELSE <<[k |-> Closed, v |-> Len(sub)]>>

StatusCountsOf(sub) ==
    IF HasColumn(sub, "status") THEN safe_counts(Column(sub, StatusTitle)) ELSE <<>>

EngineerCountsOf(sub) ==
    IF HasColumn(sub, "engineer") THEN safe_counts(Column(sub, EngineerStripped)) ELSE <<>>

IssueTypeOrOther(r) == IF "issue_type" \in DOMAIN r THEN r.issue_type ELSE "Other"

IssueTypeCountsOf(sub) == safe_counts(Column(sub, IssueTypeOrOther))

\* Mutant: the issue types are counted over the whole dataset
\* (summary["by_issue_type"]) instead of the month's rows.
SummaryOfMonthWholeDataset(sm, m, sub) ==
    IF sub = <<>> THEN NoData(m)
    ELSE SummaryText(sm, m, Len(sub),
                     StatusCountsOf(sub),
                     sm.by_issue_type,
                     EngineerCountsOf(sub),
                     PeakQuiet(sub, label_to_year_month(m)))

\* Mutant: the month's rows are not tested for emptiness.
SummaryOfMonthUnchecked(sm, m, sub) ==
    SummaryText(sm, m, Len(sub),
                StatusCountsOf(sub),
                IssueTypeCountsOf(sub),
                EngineerCountsOf(sub),
                PeakQuiet(sub, label_to_year_month(m)))

\* generate_summary_text from the second `if sub.empty` on.
SummaryOfMonth(sm, m, sub) ==
    IF sub = <<>> THEN NoData(m)
    ELSE SummaryText(sm, m, Len(sub),
                     StatusCountsOf(sub),
                     IssueTypeCountsOf(sub),
                     EngineerCountsOf(sub),
                     PeakQuiet(sub, label_to_year_month(m)))

\* Mutant: the month's rows are kept as summary["raw"].
SummaryAfterTextKeepingSub(sm, m) ==
    IF "raw" \in DOMAIN sm THEN [sm EXCEPT !.raw = MonthRows(sm.raw, m)] ELSE sm

\* The summary after generate_summary_text(sm, m): sub is a copy of the
\* month's rows and the one assignment of a column is made on sub; raw,
\* by_month and the other entries are read only.
SummaryAfterText(sm, m) == sm

\* summary.get("raw") is None when the summary has no annotated table.
generate_summary_text(sm, m) ==
    IF "raw" \notin DOMAIN sm THEN NoData(m)
    ELSE IF sm.raw = <<>> THEN NoData(m)
    ELSE SummaryOfMonth(sm, m, MonthRows(sm.raw, m))

-----------------------------------------------------------------------------
(* src/genai_summary_hf.py: the deterministic insight lines.               *)

closed_lc == <<"c","l","o","s","e","d">>
open_lc == <<"o","p","e","n">>

\* _status_counts_from_raw: None stands for the empty dict.
StatusCounts(ser) ==
    IF ser = <<>> THEN None
    ELSE Some([Closed |-> Count(ser, closed_lc), Open |-> Count(ser, open_lc)])

\* df_m.get("status") is None without a status column: the AttributeError is
\* caught and the dict is empty.
StatusSeries(df_m) ==
    IF HasColumn(df_m, "status") THEN Column(df_m, StatusLower) ELSE <<>>

hf_status_counts_from_raw(sm, m) == StatusCounts(StatusSeries(MonthRows(sm.raw, m)))

\* _engineer_counts_from_raw
EngineerCounts(df_m) ==
    IF HasColumn(df_m, "engineer") THEN value_counts(Column(df_m, EngineerStripped))
    ELSE <<>>

hf_engineer_counts_from_raw(sm, m) == EngineerCounts(MonthRows(sm.raw, m))

\* _issue_counts_from_raw: raw has an 'issue' column, so its values are counted.
hf_issue_counts_from_raw(sm, m) ==
    value_counts(Column(MonthRows(sm.raw, m), IssueStripped))

\* genai_summary_hf._prev_month_label: the label before month_label in the
\* order in which the labels first appear in raw.
PrevInOrder(labels, m) ==
    IF Occurs(labels, m) /\ IndexOf(labels, m) > 1
    THEN Some(labels[IndexOf(labels, m) - 1])
    ELSE None

hf_prev_month_label(sm, m) == PrevInOrder(Dedupe(Column(sm.raw, MonthOf)), m)

\* _normalize_labels: out[kk] = v, a later key that normalizes to an earlier
\* one overwrites its count.
\* out[kk] = v
SetItem(out, kk, v) ==
    IF HasKey(out, kk)
    THEN AsTuple([i \in 1..Len(out) |-> IF out[i].k = kk THEN [k |-> kk, v |-> v] ELSE out[i]])
    ELSE Append(out, [k |-> kk, v |-> v])

RECURSIVE hf_normalize_labels(_)
hf_normalize_labels(d) ==
    IF d = <<>> THEN <<>>
    ELSE SetItem(hf_normalize_labels(SubSeq(d, 1, Len(d) - 1)),
                 CollapseSpaces(Strip(d[Len(d)].k)),
                 d[Len(d)].v)

\* _top_n(d, k)
hf_top_n(d, k) == Take(SortStable(d, CountGreater), k)

\* _compute_totals
TotalsOf(total, by_status) ==
    [total |-> total,
     closed |-> IF by_status = None THEN 0 ELSE by_status[1].Closed,
     open_ |-> IF by_status = None THEN 0 ELSE by_status[1].Open]

hf_compute_totals(sm, m) ==
    TotalsOf(Len(MonthRows(sm.raw, m)), hf_status_counts_from_raw(sm, m))

\* The trend sentence for a difference of totals.
TrendOf(delta) ==
    IF delta = 0 THEN [kind |-> "Overall workload stable compared to last month.",
                       delta |-> 0]
    ELSE IF delta > 0 THEN [kind |-> "Slight increase vs previous month", delta |-> delta]
    ELSE [kind |-> "Slight decrease vs previous month", delta |-> -delta]

\* _compute_mom
MomOf(prev_label, total_cur, total_prev) ==
    [prev_label |-> prev_label,
     total_cur |-> total_cur,
     total_prev |-> total_prev,
     trend |-> IF prev_label # None /\ total_prev >= 0
               THEN Some(TrendOf(total_cur - total_prev))
               ELSE None]

MomFrom(sm, m, prev_label) ==
    MomOf(prev_label,
          Len(MonthRows(sm.raw, m)),
          IF prev_label # None THEN Len(MonthRows(sm.raw, prev_label[1])) ELSE 0)

hf_compute_mom(sm, m) == MomFrom(sm, m, hf_prev_month_label(sm, m))

\* _line_trend
hf_line_trend(prev_label, total_cur, total_prev) ==
    IF prev_label = None THEN None ELSE Some(TrendOf(total_cur - total_prev))

\* Mutant: the arrow is taken from the counts with or without a previous label.
Top3OfWithoutPrevGuard(top_cur, by_issue_prev, total_cur, prev_label) ==
    AsTuple([i \in 1..Len(top_cur) |->
        LET cnt == top_cur[i].v
            prev_cnt == DictGet(by_issue_prev, top_cur[i].k)
        IN  [issue |-> top_cur[i].k,
             cnt |-> cnt,
             share |-> IF total_cur > 0 THEN RoundHalfEven(cnt * 100, total_cur) ELSE 0,
             arrow |-> IF cnt > prev_cnt THEN "up"
                       ELSE IF cnt < prev_cnt THEN "down"
                       ELSE "flat"]])

\* The loop of _issue_trends over top_cur.
Top3Of(top_cur, by_issue_prev, total_cur, prev_label) ==
    AsTuple([i \in 1..Len(top_cur) |->
        LET cnt == top_cur[i].v
            prev_cnt == DictGet(by_issue_prev, top_cur[i].k)
        IN  [issue |-> top_cur[i].k,
             cnt |-> cnt,
             share |-> IF total_cur > 0 THEN RoundHalfEven(cnt * 100, total_cur) ELSE 0,
             \* the arrows of the source: up, down, flat
             arrow |-> IF prev_label = None THEN "flat"
                       ELSE IF cnt > prev_cnt THEN "up"
                       ELSE IF cnt < prev_cnt THEN "down"
                       ELSE "flat"]])

TrendsOf(by_issue_cur, by_issue_prev, total_cur, prev_label) ==
    [by_issue_cur |-> by_issue_cur,
     by_issue_prev |-> by_issue_prev,
     top3 |-> Top3Of(hf_top_n(by_issue_cur, 3), by_issue_prev, total_cur, prev_label)]

\* _issue_trends
hf_issue_trends(sm, m, total_cur, prev_label) ==
    TrendsOf(hf_normalize_labels(hf_issue_counts_from_raw(sm, m)),
             IF prev_label # None
             THEN hf_normalize_labels(hf_issue_counts_from_raw(sm, prev_label[1]))
             ELSE <<>>,
             total_cur, prev_label)

\* _most_improved_issue
Drops(by_issue_cur, by_issue_prev) ==
    AsTuple([i \in 1..Len(by_issue_prev) |->
        [k |-> by_issue_prev[i].k,
         v |-> by_issue_prev[i].v - DictGet(by_issue_cur, by_issue_prev[i].k)]])

FirstKey(items) == IF items = <<>> THEN None ELSE Some(items[1].k)

hf_most_improved_issue(by_issue_cur, by_issue_prev) ==
    FirstKey(SortStable(SelectRows(Drops(by_issue_cur, by_issue_prev), LAMBDA c : c.v > 0),
                        CountGreater))

\* Mutant: the new issues are not sorted by count.
hf_emerging_issue_first_new(by_issue_cur, by_issue_prev) ==
    FirstKey(SelectRows(by_issue_cur, LAMBDA c : ~HasKey(by_issue_prev, c.k)))

\* _emerging_issue
hf_emerging_issue(by_issue_cur, by_issue_prev) ==
    FirstKey(SortStable(SelectRows(by_issue_cur, LAMBDA c : ~HasKey(by_issue_prev, c.k)),
                        CountGreater))

\* Mutant: the threshold is compared with > instead of >=.
hf_engineer_distribution_strict(by_eng_cur, total_cur) ==
    IF total_cur <= 0 \/ by_eng_cur = <<>> THEN None
    ELSE LET top == hf_top_n(by_eng_cur, 1)[1]
         IN  IF top.v * 100 > 60 * total_cur
             THEN Some([kind |-> "Workload concentrated", name |-> top.k,
                        pct |-> RoundHalfEven(top.v * 100, total_cur)])
             ELSE Some([kind |-> "Workload evenly distributed among engineers."])

\* _engineer_distribution: share >= 0.60 with share = cnt / total_cur.
hf_engineer_distribution(by_eng_cur, total_cur) ==
    IF total_cur <= 0 \/ by_eng_cur = <<>> THEN None
    ELSE LET top == hf_top_n(by_eng_cur, 1)[1]
         IN  IF top.v * 100 >= 60 * total_cur
             THEN Some([kind |-> "Workload concentrated", name |-> top.k,
                        pct |-> RoundHalfEven(top.v * 100, total_cur)])
             ELSE Some([kind |-> "Workload evenly distributed among engineers."])

\* _line_top_engineer
hf_line_top_engineer(by_eng_cur, total, closed) ==
    IF by_eng_cur = <<>> THEN None
    ELSE LET top == hf_top_n(by_eng_cur, 1)[1]
         IN  Some([name |-> top.k, cnt |-> top.v,
                   close_rate |-> IF total > 0 THEN RoundHalfEven(closed * 100, total)
                                  ELSE 0])

\* _line_most_improved
hf_line_most_improved(mi, prev_label) ==
    IF mi # None /\ prev_label # None
    THEN Some([issue |-> mi[1], prev_label |-> prev_label[1]])
    ELSE None

\* _line_diversity
hf_line_diversity(by_issue_cur, by_issue_prev) ==
    LET cur_n == Len(by_issue_cur)
        prev_n == Len(by_issue_prev)
    IN  IF prev_n = 0 THEN None
        ELSE IF cur_n > prev_n
        THEN Some([kind |-> "Issue variety increased", cur_n |-> cur_n, prev_n |-> prev_n])
        ELSE IF cur_n < prev_n
        THEN Some([kind |-> "Issue variety decreased", cur_n |-> cur_n, prev_n |-> prev_n])
        ELSE Some([kind |-> "Issue variety remained unchanged."])

\* The dict `lines` of _deterministic_insight_lines, with the values it is
\* built from.
LinesOf(m, totals, mom, trends, by_eng_cur) ==
    LET prev_label == mom.prev_label
        mi == IF prev_label # None
              THEN hf_most_improved_issue(trends.by_issue_cur, trends.by_issue_prev)
              ELSE None
        em == IF prev_label # None
              THEN hf_emerging_issue(trends.by_issue_cur, trends.by_issue_prev)
              ELSE None
    IN  [called |-> TRUE,
         total |-> totals.total,
         prev_label |-> prev_label,
         by_issue_cur |-> trends.by_issue_cur,
         by_issue_prev |-> trends.by_issue_prev,
         by_eng_cur |-> by_eng_cur,
         headline |-> [month_label |-> m, total |-> totals.total,
                       closed |-> totals.closed, open_ |-> totals.open_],
         trend |-> IF mom.trend # None THEN mom.trend
                   ELSE hf_line_trend(prev_label, mom.total_cur, mom.total_prev),
         top_issues |-> trends.top3,
         top_engineer |-> hf_line_top_engineer(by_eng_cur, totals.total, totals.closed),
         most_improved |-> hf_line_most_improved(mi, prev_label),
         emerging |-> em,
         diversity |-> IF prev_label # None
                       THEN hf_line_diversity(trends.by_issue_cur, trends.by_issue_prev)
                       ELSE None,
         distribution |-> hf_engineer_distribution(by_eng_cur, totals.total)]

LinesFrom(sm, m, totals, mom) ==
    LinesOf(m, totals, mom,
            hf_issue_trends(sm, m, mom.total_cur, mom.prev_label),
            hf_engineer_counts_from_raw(sm, m))

deterministic_insight_lines(sm, m) ==
    LinesFrom(sm, m, hf_compute_totals(sm, m), hf_compute_mom(sm, m))

-----------------------------------------------------------------------------
(* src/genai_summary_hf.py: the smoother and the final text.               *)
(* A text is modelled as the sequence of its sentences, a sentence as the  *)
(* key of its line and the values the line is formatted from; " ".join is  *)
(* the sequence itself.  Every line ends with a period and the lines are   *)
(* joined by one space, so _finalize and the substitution of ". ." leave   *)
(* the sentences of the text as they are.                                  *)

GENAI_SENTENCES == 6

order == <<"headline", "trend", "top_issues", "top_engineer", "most_improved",
           "emerging", "diversity", "distribution">>

Sentence(key, line) == [key |-> key, line |-> line]

\* The sentences of lines[key] for key in keys, `if lines.get(key)`.
RECURSIVE PresentLines(_, _)
PresentLines(lines, keys) ==
    IF keys = <<>> THEN <<>>
    ELSE (IF lines[keys[1]] # None THEN <<Sentence(keys[1], lines[keys[1]])>> ELSE <<>>)
            \o PresentLines(lines, Tail(keys))

\* facts: the lines that are not None, in the order of the list.
Facts(lines) == PresentLines(lines, order)

\* len(s.split())
WordCount(s) ==
    Cardinality({i \in 1..Len(s) : ~IsSpace(s[i]) /\ (i = 1 \/ IsSpace(s[i - 1]))})

\* The words of f"{s}:" and f"{s}."
WordsGlued(s) ==
    IF s = <<>> \/ IsSpace(s[Len(s)]) THEN WordCount(s) + 1 ELSE WordCount(s)

RECURSIVE TopIssuesWords(_)
TopIssuesWords(top3) ==
    IF top3 = <<>> THEN 0 ELSE WordCount(top3[1].issue) + 3 + TopIssuesWords(Tail(top3))

\* The number of words of a line, from the format string of its builder.
LineWords(key, line) ==
    CASE key = "headline" -> WordsGlued(line.month_label) + 6
      [] key = "trend" ->
            IF line[1].kind = "Overall workload stable compared to last month."
            THEN 7 ELSE 6
      [] key = "top_issues" -> 2 + TopIssuesWords(line)
      [] key = "top_engineer" -> 7 + WordCount(line[1].name)
      [] key = "most_improved" ->
            5 + WordCount(line[1].issue) + WordsGlued(line[1].prev_label)
      [] key = "emerging" -> 6 + WordCount(line[1])
      [] key = "diversity" ->
            IF line[1].kind = "Issue variety remained unchanged." THEN 4 ELSE 7
      [] key = "distribution" ->
            IF line[1].kind = "Workload concentrated"
            THEN 4 + WordCount(line[1].name) ELSE 5

RECURSIVE TextWords(_)
TextWords(sents) ==
    IF sents = <<>> THEN 0
    ELSE LineWords(sents[1].key, sents[1].line) + TextWords(Tail(sents))

\* _looks_ok(text)
looks_ok(sents) == sents # <<>> /\ TextWords(sents) >= 12

\* What a pipeline (T5, DistilBART) does with the facts paragraph: it is not
\* available (_ensure_t5 / _ensure_bart returns None), it raises, or it
\* returns a text of which _sanitize_model_output keeps the sentences kept
\* (none of an empty or fully rejected text).
Unavailable == [kind |-> "unavailable"]
Raises == [kind |-> "raises"]
Returns(kept) == [kind |-> "text", kept |-> kept]

\* A sentence of the smoother that passes _sanitize_model_output: it names
\* the month and "issues", with figures of its own.
ModelHeadline(m) ==
    Sentence("headline", [month_label |-> m, total |-> 99, closed |-> 99, open_ |-> 0])

\* The outcomes <<T5, DistilBART>> of a call with transformers installed:
\* both raise, both are rejected, T5 leaves a sentence, or DistilBART does
\* after T5 was rejected.
SmootherOutcomes(m) ==
    {<<Raises, Raises>>,
     <<Returns(<<>>), Returns(<<>>)>>,
     <<Returns(<<ModelHeadline(m)>>), Unavailable>>,
     <<Returns(<<>>), Returns(<<ModelHeadline(m)>>)>>}

\* sanitized_sents after one attempt
SanitizedOf(outcome) == IF outcome.kind = "text" THEN outcome.kept ELSE <<>>

\* sanitized_sents after `# ---- Attempt 1` and `# ---- Attempt 2`
SanitizedSents(t5, bart) ==
    IF SanitizedOf(t5) # <<>> THEN SanitizedOf(t5) ELSE SanitizedOf(bart)

\* Mutant: a headline of the model, when there is one, replaces the
\* deterministic headline.
ensure_required_sections_model_first(sanitized_sents, lines, max_sentences) ==
    Take((IF sanitized_sents # <<>> THEN <<sanitized_sents[1]>>
          ELSE PresentLines(lines, SubSeq(order, 1, 1)))
            \o PresentLines(lines, SubSeq(order, 2, 2))
            \o PresentLines(lines, SubSeq(order, 3, Len(order))),
         max_sentences)

\* _ensure_required_sections: the headline and the trend, then the lines of
\* order[2:], trimmed to max_sentences; sanitized_sents is joined into
\* model_text, which is not read.
ensure_required_sections(sanitized_sents, lines, max_sentences) ==
    Take(PresentLines(lines, SubSeq(order, 1, 2))
            \o PresentLines(lines, SubSeq(order, 3, Len(order))),
         max_sentences)

\* Mutant: None is returned when no attempt left a sentence.
GenaiReturnNoneOnFailure(facts, sanitized_sents, final_text) ==
    IF sanitized_sents = <<>> THEN None
    ELSE IF looks_ok(final_text) THEN Some(final_text)
    ELSE IF facts # <<>> THEN Some(facts) ELSE None

\* generate_summary_text_genai from `# If both failed` on.
GenaiReturn(facts, sanitized_sents, final_text) ==
    IF sanitized_sents = <<>> /\ facts = <<>> THEN None
    ELSE IF looks_ok(final_text) THEN Some(final_text)
    ELSE IF facts # <<>> THEN Some(facts) ELSE None

GenaiFrom(lines, sanitized_sents) ==
    GenaiReturn(Facts(lines), sanitized_sents,
                ensure_required_sections(sanitized_sents, lines, GENAI_SENTENCES))

\* generate_summary_text_genai, for the outcomes of the two pipelines; the
\* record holds the lines, the outcomes and the returned value ret.
generate_summary_text_genai(lines, t5, bart) ==
    lines @@ [t5 |-> t5, bart |-> bart, facts |-> Facts(lines),
              ret |-> GenaiFrom(lines, SanitizedSents(t5, bart))]

-----------------------------------------------------------------------------
(* Ticket tables.                                                          *)

Ticket(m, i, s, e) == [month_label |-> m, issue |-> i, status |-> s, engineer |-> e]

VdiDown == <<"V","D","I"," ","d","o","w","n">>
VdiDownWide == <<"V","D","I"," "," ","d","o","w","n">>
OtpFails == <<"O","T","P"," ","f","a","i","l","s">>
PrinterJam == <<"p","r","i","n","t","e","r"," ","j","a","m">>
DlpAlert == <<"D","L","P"," ","a","l","e","r","t">>
VpnDrops == <<"V","P","N"," ","d","r","o","p","s">>

StClosed == <<"C","l","o","s","e","d">>
StOpenPadded == <<"o","p","e","n"," ">>
StPending == <<"P","e","n","d","i","n","g">>
StClosedCaps == <<"C","L","O","S","E","D">>

Asha == <<"A","s","h","a">>
AshaPadded == <<"A","s","h","a"," ">>
Ravi == <<"R","a","v","i">>
Meena == <<"M","e","e","n","a">>

\* Tickets of a table that spans the months DEC2025 and JAN2026.
TicketKinds ==
    {Ticket(m, p[1], p[2], p[3]) :
        m \in {DEC2025, JAN2026},
        p \in {<<VdiDown, StClosed, Asha>>,
               <<VdiDownWide, StOpenPadded, AshaPadded>>,
               <<VpnAccessResetViaSspr, StPending, Ravi>>,
               <<PrinterJam, StClosedCaps, Ravi>>}}

\* Tickets of a table that holds the single month DEC2025: three kinds for
\* the long tables, a fourth for the short ones.
MonthTicketKinds ==
    {Ticket(DEC2025, p[1], p[2], p[3]) :
        p \in {<<VdiDown, StClosed, Asha>>,
               <<OtpFails, StOpenPadded, Ravi>>,
               <<VpnAccessResetViaSspr, StPending, Meena>>}}

VariedTicketKinds ==
    MonthTicketKinds \cup {Ticket(DEC2025, PrinterJam, StClosedCaps, Asha)}

\* Tickets of DEC2025, one kind for each label of the classifier.
AdviceTicketKinds ==
    {Ticket(DEC2025, i, StClosed, Asha) :
        i \in {VdiDown, OtpFails, DlpAlert, VpnAccessResetViaSspr, VpnDrops, PrinterJam}}

\* The months a narrator is asked for.
MonthPool == {DEC2025, JAN2026}

\* Tickets with timestamps; the loader derives date from start.
DatedTicket(m, i, s, e, start, end) ==
    [month_label |-> m, issue |-> i, status |-> s, engineer |-> e,
     start |-> start, end |-> end, date |-> start]

Nov30 == Date(2025, 11, 30)
Dec1 == Date(2025, 12, 1)
Dec2 == Date(2025, 12, 2)
Jan5 == Date(2026, 1, 5)

DatedTicketKinds ==
    {DatedTicket(DEC2025, p[1], p[2], p[3], d[1], d[2]) :
        p \in {<<VdiDown, StClosed, Asha>>, <<OtpFails, StOpenPadded, Ravi>>},
        d \in {<<Dec1, Dec1>>, <<Nov30, Dec2>>, <<NaT, NaT>>}}
      \cup {DatedTicket(DEC2025, VdiDown, StClosed, Asha, d[1], d[2]) :
                d \in {<<Dec1, Jan5>>, <<Dec1, Dec2>>}}
      \cup {DatedTicket(JAN2026, OtpFails, StClosed, Asha, Jan5, Jan5)}

\* Tickets of DEC2025 that differ in their timestamps only.
DayTicketKinds ==
    {DatedTicket(DEC2025, VdiDown, StClosed, Asha, d[1], d[2]) :
        d \in {<<Dec1, Dec1>>, <<Nov30, Dec2>>, <<NaT, NaT>>, <<Dec1, Jan5>>,
               <<Dec1, Dec2>>}}

\* The columns of a table handed to generate_monthly_summary: issue and
\* month_label, and any of the optional ones.
ColumnSets ==
    {{"month_label", "issue"} \cup opt :
        opt \in {{"status", "engineer", "start", "end", "date"},
                 {"engineer", "start", "end", "date"},
                 {"status", "start", "end", "date"},
                 {"status", "engineer", "start", "end"},
                 {"status", "engineer", "end", "date"},
                 {"status", "engineer", "date"},
                 {"status", "engineer"},
                 {}}}

\* df[cols]
Project(rows, cols) ==
    AsTuple([i \in 1..Len(rows) |-> [c \in cols |-> rows[i][c]]])

-----------------------------------------------------------------------------
(* The pipeline: aggregate a ticket table, then narrate months.            *)

InitPipe(tables) ==
    /\ df \in tables
    /\ summary = NotCalled
    /\ month_label = <<>>
    /\ insight = NotCalled
    /\ genai = NotCalled
    /\ narrated = <<>>
    /\ IdleClassify
    /\ IdlePrev

Init == InitPipe(UNION {[1..n -> TicketKinds] : n \in 0..MaxTickets})

InitMonth ==
    InitPipe(UNION {[1..n -> MonthTicketKinds] : n \in 1..MaxMonthTickets}
                \cup UNION {[1..n -> VariedTicketKinds] : n \in 1..MaxVariedTickets})

InitCols ==
    InitPipe({Project(t, cols) :
                t \in UNION {[1..n -> DatedTicketKinds] : n \in 1..MaxDatedTickets},
                cols \in ColumnSets})

Aggregate ==
    /\ ~summary.called
    /\ summary' = generate_monthly_summary(df)
    /\ UNCHANGED <<df, month_label, insight, genai, narrated, classifyVars, prevVars>>

\* A narrator reads the summary and the month only: a behaviour follows the
\* narration of one month by one of the two narrators.
Narrate ==
    /\ summary.called
    /\ ~insight.called
    /\ ~genai.called
    /\ \E m \in MonthPool :
        /\ month_label' = m
        /\ insight' = generate_summary_text(summary, m)
        /\ narrated' = Append(narrated, m)
    /\ genai' = NotCalled
    /\ UNCHANGED <<df, summary, classifyVars, prevVars>>

\* generate_summary_text_genai where transformers is not installed: both
\* pipelines are unavailable.
NarrateGenai ==
    /\ summary.called
    /\ ~insight.called
    /\ ~genai.called
    /\ \E m \in MonthPool :
        /\ month_label' = m
        /\ genai' = generate_summary_text_genai(deterministic_insight_lines(summary, m),
                                                Unavailable, Unavailable)
        /\ narrated' = Append(narrated, m)
    /\ insight' = NotCalled
    /\ UNCHANGED <<df, summary, classifyVars, prevVars>>

\* The two pipelines answer in any of their ways.
Smoothed(m, lines) ==
    {generate_summary_text_genai(lines, o[1], o[2]) : o \in SmootherOutcomes(m)}

\* generate_summary_text_genai with the pipelines at work.
NarrateSmoothed ==
    /\ summary.called
    /\ ~insight.called
    /\ ~genai.called
    /\ \E m \in MonthPool :
        /\ month_label' = m
        /\ genai' \in Smoothed(m, deterministic_insight_lines(summary, m))
        /\ narrated' = Append(narrated, m)
    /\ insight' = NotCalled
    /\ UNCHANGED <<df, summary, classifyVars, prevVars>>

Next == Aggregate \/ Narrate \/ NarrateGenai \/ NarrateSmoothed

\* The pipeline where transformers is not installed.
NextUnsmoothed == Aggregate \/ Narrate \/ NarrateGenai

-----------------------------------------------------------------------------
(* The month-over-month block of generate_summary_text applied to a        *)
(* by_month table of the caller's summary and one month.                   *)

\* by_month tables: one row per label, the labels in sorted (string) order
\* as groupby leaves them, the counts from 0 on.
ByMonthTables ==
    UNION {{AsTuple([i \in 1..Len(ls) |-> [month_label |-> ls[i], issue_count |-> c[i]]]) :
                c \in [1..Len(ls) -> 0..MaxMonthCount]} :
           ls \in {l \in LabelLists : \A i \in 1..(Len(l) - 1) : StrLess(l[i], l[i + 1])}}

InitMom ==
    /\ summary \in {[called |-> TRUE, by_month |-> t] : t \in ByMonthTables}
    /\ df = <<>>
    /\ month_label = <<>>
    /\ insight = NotCalled
    /\ genai = NotCalled
    /\ narrated = <<>>
    /\ IdleClassify
    /\ IdlePrev

MomField ==
    /\ ~insight.called
    /\ \E m \in LabelPool :
        /\ month_label' = m
        /\ insight' = [called |-> TRUE, nodata |-> FALSE,
                       mom_change |-> MomChange(summary.by_month, m)]
    /\ UNCHANGED <<df, summary, genai, narrated, classifyVars, prevVars>>

SpecMom == InitMom /\ [][MomField]_vars

Spec == Init /\ [][Next]_vars

SpecMonth == InitMonth /\ [][NextUnsmoothed]_vars

SpecCols == InitCols /\ [][NextUnsmoothed]_vars

InitAdvice == InitPipe(UNION {[1..n -> AdviceTicketKinds] : n \in 1..MaxAdviceTickets})

SpecAdvice == InitAdvice /\ [][NextUnsmoothed]_vars

InitDays == InitPipe(UNION {[1..n -> DayTicketKinds] : n \in 1..MaxDayTickets})

SpecDays == InitDays /\ [][NextUnsmoothed]_vars

-----------------------------------------------------------------------------
(* The issue lines of _deterministic_insight_lines (top issues, most       *)
(* improved, emerging) for the two dicts of issue counts _issue_trends     *)
(* hands on and the previous label found.                                  *)

IssuePool == {VdiDown, OtpFails, PrinterJam}

\* Dicts of issue counts: distinct keys in any order, counts from 1 on.
IssueDicts ==
    UNION {{AsTuple([i \in 1..Len(ks) |-> [k |-> ks[i], v |-> c[i]]]) :
                c \in [1..Len(ks) -> 1..MaxIssueCount]} :
           ks \in {s \in UNION {[1..n -> IssuePool] : n \in 0..Cardinality(IssuePool)} :
                        \A i, j \in 1..Len(s) : s[i] = s[j] => i = j}}

\* Without a previous label by_issue_prev is the empty dict.
InitTrend ==
    /\ genai \in {[called |-> FALSE, prev_label |-> None,
                    by_issue_cur |-> c, by_issue_prev |-> <<>>] : c \in IssueDicts}
               \cup {[called |-> FALSE, prev_label |-> Some(DEC2025),
                       by_issue_cur |-> c, by_issue_prev |-> p] :
                            c \in IssueDicts, p \in IssueDicts}
    /\ df = <<>>
    /\ summary = NotCalled
    /\ month_label = <<>>
    /\ insight = NotCalled
    /\ narrated = <<>>
    /\ IdleClassify
    /\ IdlePrev

\* The lines for JAN2026, the month's total being the sum of its counts.
IssueLines ==
    /\ ~genai.called
    /\ month_label' = JAN2026
    /\ genai' = LinesOf(JAN2026,
                        TotalsOf(SumValues(genai.by_issue_cur), None),
                        MomOf(genai.prev_label, SumValues(genai.by_issue_cur),
                              SumValues(genai.by_issue_prev)),
                        TrendsOf(genai.by_issue_cur, genai.by_issue_prev,
                                 SumValues(genai.by_issue_cur), genai.prev_label),
                        <<>>)
    /\ UNCHANGED <<df, summary, insight, narrated, classifyVars, prevVars>>

SpecTrend == InitTrend /\ [][IssueLines]_vars

-----------------------------------------------------------------------------
(* The months of one summary narrated in turn, by either narrator.         *)

InitOrder == InitPipe(UNION {[1..n -> TicketKinds] : n \in 0..MaxOrderTickets})

NarrateMonth ==
    /\ summary.called
    /\ Len(narrated) < MaxNarrations
    /\ \E m \in MonthPool :
        /\ month_label' = m
        /\ insight' = generate_summary_text(summary, m)
        /\ summary' = SummaryAfterText(summary, m)
        /\ narrated' = Append(narrated, m)
    /\ genai' = NotCalled
    /\ UNCHANGED <<df, classifyVars, prevVars>>

\* _deterministic_insight_lines and its helpers read raw and filter copies.
NarrateGenaiMonth ==
    /\ summary.called
    /\ Len(narrated) < MaxNarrations
    /\ \E m \in MonthPool :
        /\ month_label' = m
        /\ genai' = generate_summary_text_genai(deterministic_insight_lines(summary, m),
                                                Unavailable, Unavailable)
        /\ narrated' = Append(narrated, m)
    /\ insight' = NotCalled
    /\ UNCHANGED <<df, summary, classifyVars, prevVars>>

NextOrder == Aggregate \/ NarrateMonth \/ NarrateGenaiMonth

SpecOrder == InitOrder /\ [][NextOrder]_vars

-----------------------------------------------------------------------------
(* Claims about the classifier (checked under SpecClassify).               *)

Classified == label # ""

\* The positions in CATEGORIES of the categories with a keyword in t.
MatchingCategories(t) ==
    {i \in 1..Len(CATEGORIES) :
        \E j \in 1..Len(CATEGORIES[i].keys) : IsSubstring(CATEGORIES[i].keys[j], t)}

\* C1: for a string description, classify_issue returns the earliest declared
\* category that has a keyword occurring in the lowercased description, and
\* "Other" exactly when no category has one.
C1_FirstDeclaredCategoryWins ==
    (Classified /\ text.kind = "str") =>
        LET hit == MatchingCategories(Lower(text.val))
        IN  /\ (label = "Other") <=> (hit = {})
            /\ hit # {} =>
                 \E i \in hit : /\ \A j \in hit : i <= j
                                /\ label = CATEGORIES[i].cat

\* A description with keywords of several categories has been classified.
C1_Witness ==
    /\ Classified
    /\ text.kind = "str"
    /\ Cardinality(MatchingCategories(Lower(text.val))) >= 2

\* C2 (as claimed): "VPN access reset via SSPR" is classified "Network/VPN".
C2_ScenarioIsNetworkVpn ==
    (Classified /\ text = StrVal(VpnAccessResetViaSspr)) => label = "Network/VPN"

\* C2 (amended): "VPN access reset via SSPR" is classified "Access/Password",
\* the earliest declared category with a keyword ("access", "reset", "sspr")
\* in it; "Network/VPN" ("vpn") is declared later.
C2_ScenarioIsAccessPassword ==
    (Classified /\ text = StrVal(VpnAccessResetViaSspr)) => label = "Access/Password"

C2_Witness == Classified /\ text = StrVal(VpnAccessResetViaSspr)

\* C3: classify_issue returns, for every value, one of the five declared
\* labels or "Other" (never an exception), and "Other" for a missing value,
\* a non-string value and the empty string.
C3_TotalAndOtherOnNonText ==
    Classified =>
        /\ label \in {"Citrix", "MFA", "Endpoint Compliance", "Access/Password",
                      "Network/VPN", "Other"}
        /\ (text.kind # "str" \/ text.val = <<>>) => label = "Other"

C3_Witness == Classified /\ text.kind \in {"NoneType", "float", "int"}

-----------------------------------------------------------------------------
(* Claims about genai_insights._prev_month_label (checked under SpecPrev). *)

\* (year, month) of a label that parses.
YearMonth(lab) == label_to_year_month(lab)[1]
Parses(lab) == label_to_year_month(lab) # None
YearMonthLess(a, b) == a[1] < b[1] \/ (a[1] = b[1] /\ a[2] < b[2])

\* The labels of a list whose (year, month) is strictly before that of cur.
EarlierLabels(labels, cur) ==
    {labels[i] : i \in {j \in 1..Len(labels) :
        /\ Parses(labels[j])
        /\ YearMonthLess(YearMonth(labels[j]), YearMonth(cur))}}

\* The previous month of cur among labels, by (year, month): None, or the
\* label of the largest (year, month) strictly before that of cur.
IsPreviousByYearMonth(ret, labels, cur) ==
    LET earlier == EarlierLabels(labels, cur)
    IN  IF earlier = {} THEN ret = None
        ELSE \E l \in earlier :
                /\ ret = Some(l)
                /\ \A k \in earlier : ~YearMonthLess(YearMonth(l), YearMonth(k))

\* C6: for every list of month labels, in any order, and every label of it,
\* genai_insights._prev_month_label returns the label with the largest
\* (year, month) strictly less than the label's, and None for the smallest.
C6_PrevByYearMonth ==
    (prev.called /\ Occurs(all_labels, current) /\ Parses(current)) =>
        IsPreviousByYearMonth(prev.ret, all_labels, current)

\* FEB2026 sorts before JAN2026 as a string; its previous month is JAN2026.
C6_Witness ==
    /\ prev.called
    /\ Occurs(all_labels, JAN2026)
    /\ Occurs(all_labels, DEC2025)
    /\ current = FEB2026
    /\ all_labels[1] = FEB2026
    /\ prev.ret = Some(JAN2026)

-----------------------------------------------------------------------------
(* Claims about the pipeline (checked under Spec).                         *)

Labels == {"Citrix", "MFA", "Endpoint Compliance", "Access/Password",
           "Network/VPN", "Other"}

\* The rows of the ticket table that belong to month m.
TicketsOfMonth(m) == {i \in 1..Len(df) : df[i].month_label = m}

\* The tickets of month m whose description the classifier maps to c.
TicketsOfType(m, c) ==
    {i \in TicketsOfMonth(m) : classify_issue(StrVal(df[i].issue)) = c}

Narrated == insight.called /\ ~insight.nodata

Min(a, b) == IF a < b THEN a ELSE b

\* C4: the issue-type count generate_summary_text computes for a category in
\* month M is the number of tickets of M that classify_issue maps to it, and
\* the counts of all categories add up to the total of M.
C4_IssueTypeCountsPerMonth ==
    Narrated =>
        /\ \A c \in Labels :
             DictGet(insight.by_issue_type, c) = Cardinality(TicketsOfType(month_label, c))
        /\ \A i \in 1..Len(insight.by_issue_type) : insight.by_issue_type[i].k \in Labels
        /\ SumValues(insight.by_issue_type) = Cardinality(TicketsOfMonth(month_label))
        /\ SumValues(insight.by_issue_type) = insight.total

\* A month with two issue types was narrated while the table also holds
\* tickets of the other month.
C4_Witness ==
    /\ Narrated
    /\ Len(insight.by_issue_type) >= 2
    /\ \E i \in 1..Len(df) : df[i].month_label # month_label

\* C5: the closure rate of generate_summary_text and the close rate of
\* _line_top_engineer lie in [0, 100]; both expressions give 0, without a
\* division, for a total of 0.
C5_ClosureRateInRange ==
    /\ Narrated =>
         /\ insight.closure_rate.den > 0
         /\ 0 <= insight.closure_rate.num
         /\ insight.closure_rate.num <= 100 * insight.closure_rate.den
         /\ ClosureRate(0, 0) = Ratio(0, 1)
    /\ (genai.called /\ genai.top_engineer # None) =>
         /\ genai.top_engineer[1].close_rate \in 0..100
         /\ hf_line_top_engineer(genai.by_eng_cur, 0, 0)[1].close_rate = 0

\* A month with closed and not closed tickets was narrated.
C5_Witness ==
    /\ Narrated
    /\ insight.closed >= 1
    /\ insight.closed < insight.total

\* C7 (as claimed): the previous month of genai_summary_hf is the label with
\* the largest (year, month) strictly before the requested month's, whatever
\* the order of the rows in raw, as genai_insights._prev_month_label finds it.
C7_HfPrevByYearMonth ==
    (genai.called /\ TicketsOfMonth(month_label) # {}) =>
        /\ IsPreviousByYearMonth(genai.prev_label, Column(df, MonthOf), month_label)
        /\ genai.prev_label =
              gi_prev_month_label(Column(summary.by_month, MonthOf), month_label)

\* The months of the table that are the previous month of m by (year, month).
PreviousMonths(m) ==
    {p \in MonthPool : /\ Parses(m)
                       /\ IsPreviousByYearMonth(Some(p), Column(df, MonthOf), m)}

TotalOfMonth(m) == Cardinality(TicketsOfMonth(m))

\* C11 (as claimed): when the requested month has total C and its previous
\* month, by (year, month), has total P > 0, the trend line reports the
\* signed difference C - P, as an increase when C > P, a decrease when C < P
\* and a stable workload when C = P, and the month-over-month field of
\* generate_summary_text carries the matching sign word.
C11_MomLineReportsDifference ==
    \A p \in PreviousMonths(month_label) :
        LET C == TotalOfMonth(month_label)
            P == TotalOfMonth(p)
        IN  (C > 0 /\ P > 0) =>
              /\ genai.called =>
                    /\ genai.trend # None
                    /\ C > P => /\ genai.trend[1].kind = "Slight increase vs previous month"
                                /\ genai.trend[1].delta = C - P
                    /\ C < P => /\ genai.trend[1].kind = "Slight decrease vs previous month"
                                /\ genai.trend[1].delta = P - C
                    /\ C = P => genai.trend[1].kind =
                                    "Overall workload stable compared to last month."
              /\ Narrated =>
                    /\ insight.mom_change.kind = "percent"
                    /\ insight.mom_change.sign =
                          (IF C > P THEN "increase" ELSE IF C < P THEN "decrease"
                           ELSE "no change")

\* C13: for a month label without rows in the annotated table, and for a
\* summary whose table is empty or absent, generate_summary_text returns the
\* sentence "No data available for <month_label>." and nothing else.
C13_NoDataSentence ==
    /\ (insight.called /\ TicketsOfMonth(month_label) = {}) =>
          insight = [called |-> TRUE, nodata |-> TRUE, month_label |-> month_label]
    /\ \A m \in MonthPool :
          /\ generate_summary_text([by_month |-> <<>>], m) =
                [called |-> TRUE, nodata |-> TRUE, month_label |-> m]
          /\ generate_summary_text([by_month |-> <<>>, raw |-> <<>>], m) =
                [called |-> TRUE, nodata |-> TRUE, month_label |-> m]

\* A month without rows was asked for while the table holds another month.
C13_Witness ==
    /\ insight.called
    /\ insight.nodata
    /\ df # <<>>
    /\ TicketsOfMonth(month_label) = {}

\* The sentences of the text generate_summary_text_genai returned.
GenaiSentences == IF genai.ret = None THEN <<>> ELSE genai.ret[1]

\* C14 (as claimed): for a month label without rows in the annotated table
\* generate_summary_text_genai returns None or a no-data sentence, never a
\* headline that presents the month with metrics ("<month>: 0 issues; Closed
\* 0, Open 0.").
C14_GenaiNoDataForEmptyMonth ==
    (genai.called /\ TicketsOfMonth(month_label) = {}) =>
        \A i \in 1..Len(GenaiSentences) : GenaiSentences[i].key # "headline"

PositionsOf(k) ==
    {i \in 1..Len(GenaiSentences) : GenaiSentences[i] = Sentence(k, genai[k])}

\* C16 (as claimed): every deterministic line that is not None is in the
\* text generate_summary_text_genai returns, once, and the lines follow the
\* order headline, trend, top issues, top engineer, most improved, emerging,
\* diversity, distribution.
C16_EveryLineOnceInOrder ==
    genai.called =>
        /\ \A j \in 1..Len(order) :
             genai[order[j]] # None => Cardinality(PositionsOf(order[j])) = 1
        /\ \A j, k \in 1..Len(order) :
             j < k => \A a \in PositionsOf(order[j]), b \in PositionsOf(order[k]) : a < b

\* No attempt left a sentence: the pipelines are unavailable, raise, or
\* return a text that sanitization rejects.
SmoothingFailed == SanitizedOf(genai.t5) = <<>> /\ SanitizedOf(genai.bart) = <<>>

C18_InputUnchangedRawAnnotated ==
    /\ [][df' = df]_vars
    /\ [](summary.called =>
            /\ Len(summary.raw) = Len(df)
            /\ \A i \in 1..Len(df) :
                 /\ "issue_type" \notin DOMAIN df[i]
                 /\ DOMAIN summary.raw[i] = DOMAIN df[i] \cup {"issue_type"}
                 /\ \A c \in DOMAIN df[i] : summary.raw[i][c] = df[i][c]
                 /\ summary.raw[i].issue_type = classify_issue(StrVal(df[i].issue))
                 /\ summary.raw[i].issue_type \in Labels)

\* A table of three tickets of two issue types has been aggregated.
C18_Witness ==
    /\ summary.called
    /\ Len(df) = 3
    /\ summary.raw[1].issue_type # summary.raw[3].issue_type

\* C19: generate_monthly_summary applied to an empty ticket collection
\* returns a summary whose aggregates and annotated table are empty, and
\* generate_summary_text on that summary returns the no-data sentence.
C19_EmptyTableEmptySummary ==
    (summary.called /\ df = <<>>) =>
        /\ "error" \notin DOMAIN summary
        /\ summary.by_status = <<>>
        /\ summary.by_engineer = <<>>
        /\ summary.by_issue_type = <<>>
        /\ summary.by_month = <<>>
        /\ summary.daily = <<>>
        /\ summary.raw = <<>>
        /\ insight.called =>
             insight = [called |-> TRUE, nodata |-> TRUE, month_label |-> month_label]

\* The summary of the empty table has been narrated.
C19_Witness ==
    /\ df = <<>>
    /\ summary.called
    /\ insight.called
    /\ month_label = DEC2025

-----------------------------------------------------------------------------
(* Claims about tables with missing columns (checked under SpecCols).      *)

Columns == DOMAIN df[1]

\* The tickets of month m with a start or an end inside the month.
DatedTicketsOfMonth(m) ==
    {i \in TicketsOfMonth(m) :
        \/ "start" \in Columns /\ InMonth(df[i].start, YearMonth(m)[1], YearMonth(m)[2])
        \/ "end" \in Columns /\ InMonth(df[i].end, YearMonth(m)[1], YearMonth(m)[2])}

\* C20: without a status, engineer or date column generate_monthly_summary
\* returns an empty aggregate for that dimension and the counts of the table
\* for the others, and generate_summary_text returns a full summary for
\* every month of the table: Closed 0 and Open 0 without a status column,
\* "N/A" for the peak day, the quiet day and the weekday when no ticket of
\* the month has a date in it.
C20_MissingColumnsDegrade ==
    summary.called =>
        /\ "status" \notin Columns => summary.by_status = <<>>
        /\ "engineer" \notin Columns => summary.by_engineer = <<>>
        /\ "date" \notin Columns => summary.daily = <<>>
        /\ "status" \in Columns =>
             \A s \in {Title(Strip(df[i].status)) : i \in 1..Len(df)} :
                DictGet(summary.by_status, s) =
                    Cardinality({i \in 1..Len(df) : Title(Strip(df[i].status)) = s})
        /\ "engineer" \in Columns =>
             \A e \in {Strip(df[i].engineer) : i \in 1..Len(df)} :
                DictGet(summary.by_engineer, e) =
                    Cardinality({i \in 1..Len(df) : Strip(df[i].engineer) = e})
        /\ \A c \in Labels :
             DictGet(summary.by_issue_type, c) =
                Cardinality({i \in 1..Len(df) : classify_issue(StrVal(df[i].issue)) = c})
        /\ \A m \in MonthPool :
             TicketsOfMonth(m) # {} =>
                /\ InByMonth(summary.by_month, m)
                /\ ByMonthCount(summary.by_month, m) = TotalOfMonth(m)
        /\ (insight.called /\ TicketsOfMonth(month_label) # {}) =>
             /\ ~insight.nodata
             /\ insight.total = TotalOfMonth(month_label)
             /\ "status" \notin Columns =>
                  /\ insight.closed = 0
                  /\ insight.open_ = 0
                  /\ insight.closure_rate.num = 0
             /\ DatedTicketsOfMonth(month_label) = {} =>
                  /\ insight.peak = NA
                  /\ insight.quiet = NA
                  /\ insight.busiest_weekday = NA
             /\ DatedTicketsOfMonth(month_label) # {} =>
                  /\ insight.peak # NA
                  /\ insight.quiet # NA
                  /\ insight.busiest_weekday # NA

\* A month of a table without its optional columns was narrated.
C20_Witness ==
    /\ insight.called
    /\ ~insight.nodata
    /\ Columns = {"month_label", "issue"}
    /\ insight.total = 2
    /\ insight.peak = NA

-----------------------------------------------------------------------------
(* Claims about the month-over-month field (checked under SpecMom).        *)

ByMonthLabels == Column(summary.by_month, MonthOf)

\* The labels of by_month that are the previous month of m by (year, month).
PreviousInByMonth(m) ==
    {p \in LabelPool : /\ Parses(m)
                       /\ Occurs(ByMonthLabels, p)
                       /\ IsPreviousByYearMonth(Some(p), ByMonthLabels, m)}

\* C12: for a requested month of by_month, the month-over-month field is a
\* signed percentage with increase / decrease / no change when the previous
\* month has a count > 0, the unbounded-increase text when that count is 0,
\* and "No previous month available for comparison" when the month has no
\* previous month; the three forms differ, and a month without a previous
\* month never reads as a change of 0%.
C12_MomFieldForms ==
    (insight.called /\ InByMonth(summary.by_month, month_label)) =>
        LET C == ByMonthCount(summary.by_month, month_label)
            mom == insight.mom_change
        IN  /\ \A p \in PreviousInByMonth(month_label) :
                 LET P == ByMonthCount(summary.by_month, p)
                 IN  /\ P > 0 =>
                          /\ mom.kind = "percent"
                          /\ mom.prev_lab = p
                          /\ mom.delta = Ratio((C - P) * 100, P)
                          /\ mom.sign = (IF C > P THEN "increase"
                                         ELSE IF C < P THEN "decrease"
                                         ELSE "no change")
                     /\ P = 0 => mom.kind = "infinite increase"
            /\ PreviousInByMonth(month_label) = {} =>
                 mom.kind = "No previous month available for comparison"
            /\ mom.kind \in {"percent", "infinite increase",
                              "No previous month available for comparison"}

\* The previous month of the requested month has a count of 0, and a third
\* month, earlier still, has tickets.
C12_Witness ==
    /\ insight.called
    /\ Len(summary.by_month) = 3
    /\ insight.mom_change.kind = "infinite increase"
    /\ \E i \in 1..3 : summary.by_month[i].issue_count > 0
                        /\ summary.by_month[i].month_label # month_label

-----------------------------------------------------------------------------
(* Claims about one month's counts (checked under SpecMonth).              *)

RECURSIVE SumPct(_)
SumPct(items) == IF items = <<>> THEN 0 ELSE items[1].pct + SumPct(Tail(items))

RECURSIVE SumShare(_)
SumShare(items) == IF items = <<>> THEN 0 ELSE items[1].share + SumShare(Tail(items))

\* C8 (as claimed): the rounded percentage shares of the top-3 issue types,
\* of _top_n_with_pct and of _issue_trends, sum to at most 100.
C8_TopSharesSumAtMost100 ==
    /\ Narrated => SumPct(insight.top3_issue_types) <= 100
    /\ genai.called => SumShare(genai.top_issues) <= 100

\* The issue types of the tickets of month m.
TypesOfMonth(m) == {c \in Labels : TicketsOfType(m, c) # {}}

\* A top list: min(3, n) entries out of a dict of n counts, in
\* non-increasing order of count, every entry an item of the dict, and no
\* item of the dict that is left out has a greater count than a listed one.
IsTopList(top, counts, KeyOf(_), CountOf(_)) ==
    /\ Len(top) = Min(3, Len(counts))
    /\ \A i \in 1..Len(top) : DictGet(counts, KeyOf(top[i])) = CountOf(top[i])
    /\ \A i, j \in 1..Len(top) : i # j => KeyOf(top[i]) # KeyOf(top[j])
    /\ \A i \in 1..(Len(top) - 1) : CountOf(top[i]) >= CountOf(top[i + 1])
    /\ \A i \in 1..Len(counts) :
         (\A j \in 1..Len(top) : KeyOf(top[j]) # counts[i].k) =>
            \A j \in 1..Len(top) : counts[i].v <= CountOf(top[j])

TopKey(e) == e.k
TopCount(e) == e.v
TopIssue(e) == e.issue
TopCnt(e) == e.cnt

\* C9: the top-issues list has min(3, number of distinct issue types of the
\* month) entries, in non-increasing order of count, and no issue type left
\* out has a count strictly greater than a listed one.
C9_TopIssuesAreTheLargest ==
    /\ Narrated =>
         /\ Len(insight.top3_issue_types) =
               Min(3, Cardinality(TypesOfMonth(month_label)))
         /\ IsTopList(insight.top3_issue_types, insight.by_issue_type, TopKey, TopCount)
    /\ genai.called =>
         IsTopList(genai.top_issues, genai.by_issue_cur, TopIssue, TopCnt)

\* A month with four issue types was narrated: one type is left out.
C9_Witness ==
    /\ Narrated
    /\ Cardinality(TypesOfMonth(month_label)) = 4
    /\ Len(insight.top3_issue_types) = 3

\* The tickets of month m handled by engineer e (the name stripped).
TicketsOfEngineer(m, e) == {i \in TicketsOfMonth(m) : Strip(df[i].engineer) = e}

EngineersOfMonth(m) == {Strip(df[i].engineer) : i \in TicketsOfMonth(m)}

\* e has the highest ticket count of month m, and at least 60% of its total.
HoldsSixtyPercent(m, e) ==
    /\ \A o \in EngineersOfMonth(m) :
         Cardinality(TicketsOfEngineer(m, o)) <= Cardinality(TicketsOfEngineer(m, e))
    /\ 100 * Cardinality(TicketsOfEngineer(m, e)) >= 60 * Cardinality(TicketsOfMonth(m))

\* C10: for a month with a ticket and engineer data, _engineer_distribution
\* reports "Workload concentrated" naming E exactly when E has the highest
\* count of the month and at least 60% of its total, and "evenly distributed"
\* otherwise.
C10_ConcentratedFromSixtyPercent ==
    (genai.called /\ TicketsOfMonth(month_label) # {}) =>
        /\ genai.distribution # None
        /\ \A e \in EngineersOfMonth(month_label) :
             HoldsSixtyPercent(month_label, e) <=>
                /\ genai.distribution[1].kind = "Workload concentrated"
                /\ genai.distribution[1].name = e
        /\ (\A e \in EngineersOfMonth(month_label) : ~HoldsSixtyPercent(month_label, e)) <=>
             genai.distribution[1].kind = "Workload evenly distributed among engineers."

\* An engineer with exactly 60% (3 of 5 tickets) is named.
C10_Witness ==
    /\ genai.called
    /\ genai.total = 5
    /\ genai.distribution # None
    /\ genai.distribution[1].kind = "Workload concentrated"
    /\ genai.distribution[1].pct = 60

-----------------------------------------------------------------------------
(* Claims about months narrated in turn (checked under SpecOrder).         *)

\* C21: generate_summary_text and generate_summary_text_genai leave the
\* summary as it was, and what either computes for a month is what it
\* computes from the freshly aggregated summary, whichever months were
\* narrated before and in whatever order.
C21_NarrationLeavesSummary ==
    /\ [][summary.called => summary' = summary]_vars
    /\ [](insight.called =>
            insight = generate_summary_text(generate_monthly_summary(df), month_label))
    /\ [](genai.called =>
            genai = generate_summary_text_genai(
                        deterministic_insight_lines(generate_monthly_summary(df), month_label),
                        genai.t5, genai.bart))

\* DEC2025 narrated after JAN2026, both months holding tickets.
C21_Witness ==
    /\ narrated = <<JAN2026, DEC2025>>
    /\ insight.called
    /\ ~insight.nodata
    /\ \E i \in 1..Len(df) : df[i].month_label = JAN2026

-----------------------------------------------------------------------------
(* Claims about the lines of genai_summary_hf (checked under Spec).        *)

\* C22 (as claimed): every entry of the top-issues line of
\* generate_summary_text_genai is a category label of the classifier, and its
\* count is the number of the month's tickets the classifier maps to it.
C22_TopIssuesAreIssueTypes ==
    genai.called =>
        \A i \in 1..Len(genai.top_issues) :
            \E p \in LabelSpellings :
                /\ genai.top_issues[i].issue = p[2]
                /\ genai.top_issues[i].cnt = Cardinality(TicketsOfType(month_label, p[1]))

\* The issues of by_issue_prev that the month's dict holds with a smaller count.
DecreasedInBoth ==
    {i \in 1..Len(genai.by_issue_prev) :
        /\ HasKey(genai.by_issue_cur, genai.by_issue_prev[i].k)
        /\ genai.by_issue_prev[i].v > DictGet(genai.by_issue_cur, genai.by_issue_prev[i].k)}

DropOf(i) ==
    genai.by_issue_prev[i].v - DictGet(genai.by_issue_cur, genai.by_issue_prev[i].k)

\* C23 (as claimed): the most-improved issue occurs in the requested month
\* and in the previous one and has the largest decrease among such issues,
\* the first encountered of equal decreases; there is none without a
\* previous month or without such a decrease.
C23_MostImprovedInBothMonths ==
    genai.called =>
        IF genai.prev_label = None \/ DecreasedInBoth = {}
        THEN genai.most_improved = None
        ELSE \E i \in DecreasedInBoth :
                /\ genai.most_improved =
                      Some([issue |-> genai.by_issue_prev[i].k,
                            prev_label |-> genai.prev_label[1]])
                /\ \A j \in DecreasedInBoth :
                      DropOf(j) < DropOf(i) \/ (DropOf(j) = DropOf(i) /\ i <= j)

-----------------------------------------------------------------------------
(* Claims about the issue lines (checked under SpecTrend).                 *)

\* The issues of the month's dict that by_issue_prev does not hold.
NewIssues ==
    {i \in 1..Len(genai.by_issue_cur) :
        ~HasKey(genai.by_issue_prev, genai.by_issue_cur[i].k)}

\* C24: the emerging issue has a count of at least one in the requested
\* month and none in the previous month, and no such issue has a higher
\* count; there is none without a previous month or when every issue of the
\* month also occurred in the previous month.
C24_EmergingIsNewWithHighestCount ==
    genai.called =>
        IF genai.prev_label = None \/ NewIssues = {}
        THEN genai.emerging = None
        ELSE \E i \in NewIssues :
                /\ genai.emerging = Some(genai.by_issue_cur[i].k)
                /\ genai.by_issue_cur[i].v >= 1
                /\ DictGet(genai.by_issue_prev, genai.by_issue_cur[i].k) = 0
                /\ \A j \in NewIssues : genai.by_issue_cur[j].v <= genai.by_issue_cur[i].v

\* Two new issues, the one listed first with the lower count.
C24_Witness ==
    /\ genai.called
    /\ genai.prev_label = Some(DEC2025)
    /\ genai.by_issue_prev = <<[k |-> VdiDown, v |-> 1]>>
    /\ genai.by_issue_cur = <<[k |-> VdiDown, v |-> 2], [k |-> OtpFails, v |-> 1],
                              [k |-> PrinterJam, v |-> 2]>>
    /\ genai.emerging = Some(PrinterJam)

\* C25: the marker of each top issue is up when its count is greater than
\* the issue's count in the previous month (0 if it did not occur), down
\* when it is less, and flat when the counts are equal or there is no
\* previous month.
C25_MomentumMarkers ==
    genai.called =>
        \A i \in 1..Len(genai.top_issues) :
            LET e == genai.top_issues[i]
                prev_cnt == DictGet(genai.by_issue_prev, e.issue)
            IN  /\ HasKey(genai.by_issue_cur, e.issue)
                /\ e.cnt = DictGet(genai.by_issue_cur, e.issue)
                /\ e.arrow = "up" <=> (genai.prev_label # None /\ e.cnt > prev_cnt)
                /\ e.arrow = "down" <=> (genai.prev_label # None /\ e.cnt < prev_cnt)
                /\ e.arrow = "flat" <=> (genai.prev_label = None \/ e.cnt = prev_cnt)

\* One issue up from 0, one down and one level.
C25_Witness ==
    /\ genai.called
    /\ genai.prev_label = Some(DEC2025)
    /\ genai.by_issue_prev = <<[k |-> OtpFails, v |-> 2], [k |-> PrinterJam, v |-> 1]>>
    /\ genai.top_issues =
          <<[issue |-> VdiDown, cnt |-> 2, share |-> 50, arrow |-> "up"],
            [issue |-> OtpFails, cnt |-> 1, share |-> 25, arrow |-> "down"],
            [issue |-> PrinterJam, cnt |-> 1, share |-> 25, arrow |-> "flat"]>>

-----------------------------------------------------------------------------
(* Claims about the status buckets and the day analysis (checked under     *)
(* Spec and SpecCols).                                                     *)

\* The tickets of month m whose trimmed status is s, ignoring case.
TicketsOfStatus(m, s) ==
    {i \in TicketsOfMonth(m) : Lower(Strip(df[i].status)) = s}

\* C26: in both narrators Closed and Open are the numbers of the month's
\* tickets whose trimmed status is "closed" and "open", ignoring case; a
\* ticket of another status is in neither but in the total, so
\* Closed + Open <= total, and the closure rate is taken over the total.
C26_ClosedOpenBuckets ==
    /\ Narrated =>
        /\ insight.total = Cardinality(TicketsOfMonth(month_label))
        /\ insight.closed = Cardinality(TicketsOfStatus(month_label, closed_lc))
        /\ insight.open_ = Cardinality(TicketsOfStatus(month_label, open_lc))
        /\ insight.closed + insight.open_ <= insight.total
        /\ insight.closure_rate = Ratio(insight.closed * 100, insight.total)
    /\ genai.called =>
        /\ genai.headline.total = Cardinality(TicketsOfMonth(month_label))
        /\ genai.headline.closed = Cardinality(TicketsOfStatus(month_label, closed_lc))
        /\ genai.headline.open_ = Cardinality(TicketsOfStatus(month_label, open_lc))
        /\ genai.headline.closed + genai.headline.open_ <= genai.headline.total
        /\ genai.top_engineer # None =>
              genai.top_engineer[1].close_rate =
                  RoundHalfEven(genai.headline.closed * 100, genai.headline.total)

\* A month of three tickets: "CLOSED", "open " and "Pending".
C26_Witness ==
    /\ Narrated
    /\ insight.total = 3
    /\ insight.closed = 1
    /\ insight.open_ = 1
    /\ \E i \in TicketsOfMonth(month_label) : df[i].status = StClosedCaps
    /\ \E i \in TicketsOfMonth(month_label) : df[i].status = StOpenPadded
    /\ \E i \in TicketsOfMonth(month_label) : df[i].status = StPending

\* The timestamp of column c of ticket i, NaT without the column.
StampOf(i, c) == IF c \in DOMAIN df[i] THEN df[i][c] ELSE NaT

\* The (year, month) of the month narrated.
NarratedYearMonth == label_to_year_month(month_label)[1]

InNarratedMonth(d) ==
    d # NaT /\ d[1] = NarratedYearMonth[1] /\ d[2] = NarratedYearMonth[2]

\* The tickets of the month narrated that the day analysis assigns to date d:
\* those whose end is d, and those whose end is outside the month and whose
\* start is d.
TicketsOfDay(d) ==
    {i \in TicketsOfMonth(month_label) :
        \/ StampOf(i, "end") = d
        \/ ~InNarratedMonth(StampOf(i, "end")) /\ StampOf(i, "start") = d}

DaysOfMonth ==
    {d \in {StampOf(i, c) : i \in TicketsOfMonth(month_label), c \in {"start", "end"}} :
        InNarratedMonth(d)}

\* C27: each ticket of the month is counted on the date of its end when that
\* lies in the month, else on the date of its start when that lies in the
\* month, else on no day; the daily counts add up to the number of tickets
\* with such a date, which is at most the month's total, and the tickets
\* without one are still in the total.
C27_PickedDatesAndDailyCounts ==
    Narrated =>
        /\ \A d \in DaysOfMonth :
              DictGet(insight.daily, d) = Cardinality(TicketsOfDay(d))
        /\ \A j \in 1..Len(insight.daily) :
              /\ insight.daily[j].k \in DaysOfMonth
              /\ insight.daily[j].v >= 1
        /\ SumValues(insight.daily) =
              Cardinality(UNION {TicketsOfDay(d) : d \in DaysOfMonth})
        /\ SumValues(insight.daily) <= insight.total
        /\ insight.total = Cardinality(TicketsOfMonth(month_label))

\* One ticket counted on its start (its end is in January) and one without
\* timestamps: the daily counts add up to 1 of 2 tickets.
C27_Witness ==
    /\ Narrated
    /\ month_label = DEC2025
    /\ insight.total = 2
    /\ insight.daily = <<[k |-> Dec1, v |-> 1]>>
    /\ \E i \in 1..Len(df) : StampOf(i, "start") = Dec1 /\ StampOf(i, "end") = Jan5
    /\ \E i \in 1..Len(df) : StampOf(i, "start") = NaT /\ StampOf(i, "end") = NaT

-----------------------------------------------------------------------------
(* Claims about the peak and the quiet day (checked under SpecDays).       *)

\* The tickets of the month narrated that have a date in the month.
DatedTicketsNarrated == UNION {TicketsOfDay(d) : d \in DaysOfMonth}

\* C28: when a ticket of the month has a date in the month, the peak day is
\* a day with the highest daily count and the quiet day a day with the
\* lowest count among the days that have a ticket, so
\* peak count >= quiet count >= 1; when no ticket has such a date, the peak
\* day, the quiet day and the busiest weekday are "N/A".
C28_PeakAndQuietDay ==
    Narrated =>
        IF DatedTicketsNarrated = {}
        THEN insight.peak = NA /\ insight.quiet = NA /\ insight.busiest_weekday = NA
        ELSE /\ insight.peak # NA /\ insight.quiet # NA /\ insight.busiest_weekday # NA
             /\ insight.peak[1].k \in DaysOfMonth
             /\ insight.quiet[1].k \in DaysOfMonth
             /\ insight.peak[1].v = Cardinality(TicketsOfDay(insight.peak[1].k))
             /\ insight.quiet[1].v = Cardinality(TicketsOfDay(insight.quiet[1].k))
             /\ \A d \in DaysOfMonth :
                   /\ Cardinality(TicketsOfDay(d)) <= insight.peak[1].v
                   /\ Cardinality(TicketsOfDay(d)) > 0 =>
                         Cardinality(TicketsOfDay(d)) >= insight.quiet[1].v
             /\ insight.peak[1].v >= insight.quiet[1].v
             /\ insight.quiet[1].v >= 1

\* Two tickets on 1 December (a Monday) and one on 2 December.
C28_Witness ==
    /\ Narrated
    /\ insight.daily = <<[k |-> Dec1, v |-> 2], [k |-> Dec2, v |-> 1]>>
    /\ insight.peak = <<[k |-> Dec1, v |-> 2]>>
    /\ insight.quiet = <<[k |-> Dec2, v |-> 1]>>
    /\ insight.busiest_weekday = <<[k |-> "Monday", v |-> 2]>>

-----------------------------------------------------------------------------
(* Claims about the recommendations (checked under SpecAdvice).            *)

\* The categories declared in CATEGORIES.
DeclaredCategories == {CATEGORIES[i].cat : i \in 1..Len(CATEGORIES)}

GenericAdvice ==
    "Review top categories and publish targeted how-to guides for recurring issues."

\* The labels with the most tickets in the month narrated.
DominantTypes ==
    {c \in Labels :
        /\ TicketsOfType(month_label, c) # {}
        /\ \A d \in Labels : Cardinality(TicketsOfType(month_label, d))
                                <= Cardinality(TicketsOfType(month_label, c))}

\* C29 (as claimed): the first recommendation is the advice of the dominant
\* issue type; each of the five declared categories has an advice of its
\* own, and the generic advice is given only when the dominant type is
\* "Other".
C29_AdvicePerCategory ==
    Narrated =>
        /\ insight.recos # <<>>
        /\ \E c \in DominantTypes :
              /\ c = "Other" => insight.recos[1] = GenericAdvice
              /\ c \in DeclaredCategories =>
                    /\ insight.recos[1] # GenericAdvice
                    /\ insight.recos[1] = DominantAdvice(Lower(LabelText(c)))

-----------------------------------------------------------------------------
(* Claims about by_month and the month-over-month field of the pipeline    *)
(* (checked under Spec).                                                   *)

\* C30: every label of by_month has a count of at least 1, the number of
\* rows of that month in the annotated table; the total of
\* generate_summary_text is the by_month count of the month, and the
\* "previous month had 0" form of the month-over-month field is not reached.
C30_ByMonthCountsArePositive ==
    /\ summary.called =>
        \A i \in 1..Len(summary.by_month) :
            /\ summary.by_month[i].issue_count >= 1
            /\ summary.by_month[i].issue_count =
                  Len(MonthRows(summary.raw, summary.by_month[i].month_label))
            /\ summary.by_month[i].issue_count =
                  Cardinality(TicketsOfMonth(summary.by_month[i].month_label))
    /\ Narrated =>
        /\ InByMonth(summary.by_month, month_label)
        /\ insight.total = ByMonthCount(summary.by_month, month_label)
        /\ insight.mom_change.kind # "infinite increase"

\* JAN2026 with two tickets narrated after a DEC2025 of one ticket: +100%.
C30_Witness ==
    /\ Narrated
    /\ month_label = JAN2026
    /\ insight.total = 2
    /\ insight.mom_change.kind = "percent"
    /\ insight.mom_change.prev_lab = DEC2025
    /\ insight.mom_change.delta = Ratio(100, 1)

=============================================================================
